---------------------------- MODULE Spec2Model ----------------------------
(***************************************************************************)
(* Eid card generator: the message composer (agents.py), the background    *)
(* resolver (utils/image_utils.py, utils/__init__.py) and the document     *)
(* renderer (main.py, utils/pdf_generator.py) as state machines.           *)
(*                                                                         *)
(* Text is a sequence of tokens.  A token is a string: "\n" is a newline,  *)
(* " " a blank, a glyph name ("moon", "sparkles", ...) stands for one      *)
(* emoji, any other string is a run of ordinary characters.                *)
(***************************************************************************)
EXTENDS Integers, Sequences, FiniteSets, TLC

VARIABLES
    \* ---- message composer (agents.py)
    m_pc,            \* position in the composer call
    m_entry,         \* the entry point the caller used
    openrouter_key,  \* os.getenv("OPENROUTER_API_KEY")
    tone,            \* tone argument
    emoji_count,     \* emoji_count argument of generate_greeting
    llm_calls,       \* prompts handed to litellm.completion, in order
    llm_outcome,     \* "none" before the remote call, then "ok" or "failed"
    response,        \* local `response` of generate_greeting
    emojis,          \* local `emojis` of generate_greeting
    m_result,        \* value returned to the caller
    \* ---- background resolver (utils/image_utils.py, utils/__init__.py)
    r_pc,            \* position in the resolver call
    r_impl,          \* which get_pexels_image runs
    pexels_key,      \* os.getenv("PEXELS_API_KEY")
    category,        \* category argument
    search_phase,    \* "primary" or "fallback" loop
    cat_idx,         \* index into fallback_categories
    term_idx,        \* index of the next search term
    max_retries,     \* max_retries argument (utils/__init__.py)
    r_attempt,       \* loop variable `attempt` (utils/__init__.py)
    r_sleeps,        \* attempts after which time.sleep(1) ran
    data,            \* local `data`: the last decoded response
    requests_log,    \* one entry per search request issued, in order
    r_result,        \* returned URL, or NoneVal
    r_outcome,       \* "running", "returned" or "raised"
    \* ---- document renderer (main.py create_pdf_card, pdf_generator.py)
    d_pc,            \* position in the renderer call
    d_impl,          \* "create_pdf_card" or "create_pdf"
    card_message,    \* the message argument / card['message']
    theme,           \* theme argument of create_pdf
    output_path,     \* output_path of create_pdf, NoneVal when not given
    attempt,         \* loop variable of the download retry loop
    downloads,       \* outcome of each download attempt, in order
    sleeps,          \* attempts after which time.sleep(retry_delay) ran
    bg_image,        \* local bg_image (Unassigned before assignment)
    clean_message,   \* text handed to the layout
    temp_files,      \* temporary files that exist on disk
    output_tries,    \* what each pdf.output call wrote, and its outcome
    d_result,        \* returned path, or NoneVal
    d_outcome,       \* "running", "returned" or "raised"
    \* ---- theme catalog and preview renderer (tools.py, pdf_generator.py)
    p_pc,            \* position of the preview caller
    theme_name,      \* argument of style_card
    style,           \* dictionary returned by style_card
    preview_args,    \* arguments of create_preview
    preview_html,    \* fragment returned by create_preview
    \* ---- the Streamlit session (main.py)
    s_pc,            \* position inside the running handler, "idle" between handlers
    s_handler,       \* the handler that runs or ran last
    s_args,          \* arguments of create_card
    s_result,        \* how the last handler ended
    cards,           \* st.session_state.cards
    current_background,   \* st.session_state.current_background
    background_category,  \* st.session_state.background_category
    background_url,  \* local background_url of create_card
    fonts,           \* local fonts of create_card
    resolver_calls,  \* calls of get_pexels_image made by the running handler
    \* ---- the card runner (runner.py)
    run_pc,          \* position in generate_card
    run_args,        \* arguments of generate_card
    run_message,     \* local message of generate_card
    run_theme_name,  \* local theme_name of generate_card
    run_theme,       \* local theme of generate_card: the dictionary for both renderers
    run_outcome      \* "running", "returned" or "raised"

composerVars == <<m_pc, m_entry, openrouter_key, tone, emoji_count, llm_calls,
                  llm_outcome, response, emojis, m_result>>
resolverVars == <<r_pc, r_impl, pexels_key, category, search_phase, cat_idx,
                  term_idx, max_retries, r_attempt, r_sleeps, data, requests_log,
                  r_result, r_outcome>>
renderVars == <<d_pc, d_impl, card_message, theme, output_path, attempt, downloads,
                sleeps, bg_image, clean_message, temp_files, output_tries, d_result,
                d_outcome>>
previewVars == <<p_pc, theme_name, style, preview_args, preview_html>>
sessionVars == <<s_pc, s_handler, s_args, s_result, cards, current_background,
                 background_category, background_url, fonts, resolver_calls>>
runnerVars == <<run_pc, run_args, run_message, run_theme_name, run_theme, run_outcome>>
vars == <<composerVars, resolverVars, renderVars, previewVars, sessionVars, runnerVars>>

\* Python's None.
NoneVal == "None"

\* main.py:151: bg_image before its first assignment.
Unassigned == [mode |-> "unassigned", size |-> <<>>, color |-> <<>>]

NL == "\n"
SP == " "

\* Python truthiness of an optional string (`if not api_key`).
Truthy(v) == v # NoneVal /\ v # ""

Min(a, b) == IF a <= b THEN a ELSE b

\* Set of the elements of a sequence.
Range(s) == {s[i] : i \in 1..Len(s)}

-----------------------------------------------------------------------------
(***************************************************************************)
(* Message composer                                                        *)
(***************************************************************************)

\* agents.py:16-21.  The default text itself holds two glyphs on line one.
DEFAULT_MESSAGE ==
    << NL, "May this Eid bring you joy, peace, and prosperity!", SP, "moon", "sparkles",
       NL, "Wishing you and your family a blessed celebration.",
       NL, "May Allah accept our prayers and grant us His infinite mercy.", SP,
       NL, "Eid Mubarak (Urdu)", NL >>

\* agents.py:24-29.
EMOJI_SETS ==
    [ funny |-> <<"grin", "party", "confetti", "partying", "blush", "smiley",
                  "hug", "star", "sparkles", "dizzy">>,
      emotional |-> <<"heart", "hug", "giftheart", "sparkheart", "star",
                      "twohearts", "growheart", "sparkles", "dizzy", "beatheart">>,
      religious |-> <<"mosque", "starcrescent", "moon", "sparkles", "palms",
                      "beads", "star", "dizzy", "hibiscus", "blossom">>,
      formal |-> <<"hibiscus", "ribbon", "sparkles", "dizzy", "blossom", "rose",
                   "tulip", "reminder", "star", "bouquet">> ]

\* Tones a caller may pass: the four of the form plus one without a glyph set.
Tones == {"funny", "emotional", "religious", "formal", "casual"}

Recipients == {"Ali", "Sara"}
Senders == {"", "Sara"}

\* Values of OPENROUTER_API_KEY: unset, set but empty, set.
KeyValues == {NoneVal, "", "sk-key"}

\* Largest glyph count a caller passes (the sets hold 10 glyphs).
MaxEmojiCount == 11

\* Number of low values of the random source that are explored for each draw
\* (the highest value is always explored).
DrawWidth == 1

\* Texts the remote service may answer with (before .strip()).
Completions == { <<SP, "Warm wishes.", NL, "Stay blessed.", NL>> }

\* Outcomes of litellm.completion plus the reading of choices[0].message.content.
LlmOutcomes ==
    [kind : {"ok"}, text : Completions]
      \cup [kind : {"timeout", "malformed", "service_error"}, text : {<<>>}]

IsSpace(t) == t \in {SP, NL}

\* str.strip(): leading and trailing whitespace removed.
RECURSIVE LStrip(_)
LStrip(s) == IF s # <<>> /\ IsSpace(Head(s)) THEN LStrip(Tail(s)) ELSE s

RECURSIVE RStrip(_)
RStrip(s) ==
    IF s # <<>> /\ IsSpace(s[Len(s)]) THEN RStrip(SubSeq(s, 1, Len(s) - 1)) ELSE s

Strip(s) == RStrip(LStrip(s))

\* sep.join(items)
RECURSIVE Join(_, _)
Join(items, sep) ==
    IF items = <<>> THEN <<>>
    ELSE IF Len(items) = 1 THEN <<items[1]>>
    ELSE <<items[1], sep>> \o Join(Tail(items), sep)

\* dict.get(key, default)
Get(d, k, default) == IF k \in DOMAIN d THEN d[k] ELSE default

\* The prompt of generate_greeting (agents.py:128-145), by its interpolated fields.
GreetingPrompt(recipient, t, include_hadith, include_urdu, sender) ==
    [ recipient |-> recipient, tone |-> t, include_hadith |-> include_hadith,
      include_urdu |-> include_urdu,
      sender |-> IF sender # "" THEN sender ELSE "Not specified" ]

\* Values random's _randbelow(m) may return, as far as they are explored.
RandBelow(m) == {j \in 0..(m - 1) : j < DrawWidth \/ j = m - 1}

\* The draw sequences of one random.sample(population of n, k).
RECURSIVE DrawSeqs(_, _)
DrawSeqs(n, k) ==
    IF k = 0 THEN {<<>>}
    ELSE {<<j>> \o d : j \in RandBelow(n), d \in DrawSeqs(n - 1, k - 1)}

\* A sampling that never removes the drawn element from the pool.
RECURSIVE SampleWithReplacement(_, _, _)
SampleWithReplacement(pool, live, draws) ==
    IF draws = <<>> THEN <<>>
    ELSE <<pool[Head(draws) + 1]>>
           \o SampleWithReplacement(pool, live - 1, Tail(draws))

\* random.sample(population, k) for small populations: the pool algorithm.
\*   j = randbelow(n - i); result[i] = pool[j]; pool[j] = pool[n - i - 1]
RECURSIVE SamplePool(_, _, _)
SamplePool(pool, live, draws) ==
    IF draws = <<>> THEN <<>>
    ELSE LET j == Head(draws) + 1
         IN <<pool[j]>>
              \o SamplePool([pool EXCEPT ![j] = pool[live]], live - 1, Tail(draws))

\* The composer's result once the remote answer is in `response` (agents.py:149-157).
Decorate(t, resp, draws) ==
    LET picked == SamplePool(EMOJI_SETS[t], Len(EMOJI_SETS[t]), draws)
        emoji_str == Join(picked, SP)
    IN [emojis |-> picked, text |-> emoji_str \o <<NL>> \o resp \o <<NL>> \o emoji_str]

ComposerInit ==
    /\ m_pc = "start"
    /\ m_entry = "none"
    /\ openrouter_key \in KeyValues
    /\ tone = "none"
    /\ emoji_count = 0
    /\ llm_calls = <<>>
    /\ llm_outcome = "none"
    /\ response = <<>>
    /\ emojis = <<>>
    /\ m_result = NoneVal
    \* the other components at rest
    /\ r_pc = "start"
    /\ r_impl = "none"
    /\ pexels_key = NoneVal
    /\ category = "none"
    /\ search_phase = "none"
    /\ cat_idx = 0
    /\ term_idx = 0
    /\ max_retries = 0
    /\ r_attempt = 0
    /\ r_sleeps = {}
    /\ data = NoneVal
    /\ requests_log = <<>>
    /\ r_result = NoneVal
    /\ r_outcome = "running"
    /\ d_pc = "start"
    /\ d_impl = "none"
    /\ card_message = <<>>
    /\ theme = <<>>
    /\ output_path = NoneVal
    /\ attempt = 0
    /\ downloads = <<>>
    /\ sleeps = {}
    /\ bg_image = Unassigned
    /\ clean_message = <<>>
    /\ temp_files = {}
    /\ output_tries = <<>>
    /\ d_result = NoneVal
    /\ d_outcome = "running"
    /\ p_pc = "start"
    /\ theme_name = NoneVal
    /\ style = <<>>
    /\ preview_args = <<>>
    /\ preview_html = <<>>
    /\ s_pc = "idle"
    /\ s_handler = "none"
    /\ s_args = <<>>
    /\ s_result = "none"
    /\ cards = <<>>
    /\ current_background = NoneVal
    /\ background_category = "islamic patterns"
    /\ background_url = NoneVal
    /\ fonts = <<>>
    /\ resolver_calls = 0
    /\ run_pc = "start"
    /\ run_args = <<>>
    /\ run_message = <<>>
    /\ run_theme_name = NoneVal
    /\ run_theme = <<>>
    /\ run_outcome = "running"

\* generate_eid_message with the credential check left out.
generate_eid_message_nocheck(recipient, t, sender, include_hadith, include_urdu, include_emojis) ==
    /\ m_pc = "start"
    /\ m_entry' = "generate_eid_message"
    /\ tone' = t
    /\ emoji_count' = IF include_emojis THEN 2 ELSE 0
    /\ llm_calls' = <<GreetingPrompt(recipient, t, include_hadith, include_urdu, sender)>>
    /\ m_pc' = "completion"
    /\ UNCHANGED <<openrouter_key, llm_outcome, response, emojis, m_result>>

\* agents.py:31-68.  Without a credential the default is returned at once; with
\* one, the preferences go through craft_message into generate_greeting, which
\* builds the prompt and calls _get_completion.
generate_eid_message(recipient, t, sender, include_hadith, include_urdu, include_emojis) ==
    /\ m_pc = "start"
    /\ m_entry' = "generate_eid_message"
    /\ tone' = t
    /\ IF ~Truthy(openrouter_key)
       THEN /\ m_result' = DEFAULT_MESSAGE
            /\ m_pc' = "done"
            /\ UNCHANGED <<emoji_count, llm_calls>>
       ELSE LET preferences ==
                    [ include_hadith |-> include_hadith, include_urdu |-> include_urdu,
                      include_emojis |-> include_emojis,
                      emoji_count |-> IF include_emojis THEN 2 ELSE 0,
                      sender |-> sender ]
            IN /\ emoji_count' = IF Get(preferences, "include_emojis", TRUE)
                                 THEN Get(preferences, "emoji_count", 2) ELSE 0
               /\ llm_calls' = <<GreetingPrompt(recipient, t,
                                     Get(preferences, "include_hadith", FALSE),
                                     Get(preferences, "include_urdu", FALSE),
                                     Get(preferences, "sender", ""))>>
               /\ m_pc' = "completion"
               /\ UNCHANGED m_result
    /\ UNCHANGED <<openrouter_key, llm_outcome, response, emojis>>

\* Preference dictionaries a direct caller of craft_message passes (runner.py:52-56).
PreferenceDicts ==
    { <<>>,
      [include_emojis |-> FALSE],
      [emoji_count |-> 3],
      [include_emojis |-> TRUE, emoji_count |-> 1],
      [include_emojis |-> FALSE, emoji_count |-> 5, sender |-> "Sara"] }

\* agents.py:197-213, called with an agent that holds a credential.
craft_message(recipient, t, preferences) ==
    /\ m_pc = "start"
    /\ Truthy(openrouter_key)
    /\ m_entry' = "craft_message"
    /\ tone' = t
    /\ emoji_count' = IF Get(preferences, "include_emojis", TRUE)
                      THEN Get(preferences, "emoji_count", 2) ELSE 0
    /\ llm_calls' = <<GreetingPrompt(recipient, t,
                          Get(preferences, "include_hadith", FALSE),
                          Get(preferences, "include_urdu", FALSE),
                          Get(preferences, "sender", ""))>>
    /\ m_pc' = "completion"
    /\ UNCHANGED <<openrouter_key, llm_outcome, response, emojis, m_result>>

\* agents.py:116-147, called directly with the defaults of the other arguments.
generate_greeting(recipient, t, n) ==
    /\ m_pc = "start"
    /\ Truthy(openrouter_key)
    /\ m_entry' = "generate_greeting"
    /\ tone' = t
    /\ emoji_count' = n
    /\ llm_calls' = <<GreetingPrompt(recipient, t, FALSE, FALSE, "")>>
    /\ m_pc' = "completion"
    /\ UNCHANGED <<openrouter_key, llm_outcome, response, emojis, m_result>>

\* agents.py:84-114.  Every failure inside the try block yields DEFAULT_MESSAGE.
get_completion(outcome) ==
    /\ m_pc = "completion"
    /\ llm_outcome' = IF outcome.kind = "ok" THEN "ok" ELSE "failed"
    /\ response' = IF outcome.kind = "ok" THEN Strip(outcome.text) ELSE DEFAULT_MESSAGE
    /\ m_pc' = "emojis"
    /\ UNCHANGED <<m_entry, openrouter_key, tone, emoji_count, llm_calls, emojis,
                   m_result>>

\* agents.py:149-157.
add_emojis ==
    /\ m_pc = "emojis"
    /\ IF emoji_count > 0 /\ tone \in DOMAIN EMOJI_SETS
       THEN \E draws \in DrawSeqs(Len(EMOJI_SETS[tone]),
                                  Min(emoji_count, Len(EMOJI_SETS[tone]))) :
                LET d == Decorate(tone, response, draws)
                IN /\ emojis' = d.emojis
                   /\ m_result' = d.text
       ELSE /\ m_result' = response
            /\ UNCHANGED emojis
    /\ m_pc' = "done"
    /\ UNCHANGED <<m_entry, openrouter_key, tone, emoji_count, llm_calls, llm_outcome,
                   response>>

CallGenerateEidMessage ==
    /\ m_pc = "start"
    /\ \E recipient \in Recipients, t \in Tones, sender \in Senders,
       include_hadith \in BOOLEAN, include_urdu \in BOOLEAN, include_emojis \in BOOLEAN :
        generate_eid_message(recipient, t, sender, include_hadith, include_urdu,
                             include_emojis)
    /\ UNCHANGED <<resolverVars, renderVars, previewVars, sessionVars, runnerVars>>

CallCraftMessage ==
    /\ m_pc = "start"
    /\ \E recipient \in Recipients, t \in Tones, preferences \in PreferenceDicts :
        craft_message(recipient, t, preferences)
    /\ UNCHANGED <<resolverVars, renderVars, previewVars, sessionVars, runnerVars>>

CallGenerateGreeting ==
    /\ m_pc = "start"
    /\ \E t \in Tones, n \in 0..MaxEmojiCount : generate_greeting("Ali", t, n)
    /\ UNCHANGED <<resolverVars, renderVars, previewVars, sessionVars, runnerVars>>

GetCompletion ==
    /\ m_pc = "completion"
    /\ \E outcome \in LlmOutcomes : get_completion(outcome)
    /\ UNCHANGED <<resolverVars, renderVars, previewVars, sessionVars, runnerVars>>

AddEmojis ==
    /\ add_emojis
    /\ UNCHANGED <<resolverVars, renderVars, previewVars, sessionVars, runnerVars>>

\* ---- claims about the composer, checked under SpecComposer

\* The tokens before the first newline, and after the last one.
RECURSIVE FirstLine(_)
FirstLine(s) ==
    IF s = <<>> \/ Head(s) = NL THEN <<>> ELSE <<Head(s)>> \o FirstLine(Tail(s))

RECURSIVE LastLine(_)
LastLine(s) ==
    IF s = <<>> \/ s[Len(s)] = NL THEN <<>>
    ELSE Append(LastLine(SubSeq(s, 1, Len(s) - 1)), s[Len(s)])

IsGlyphToken(t) == t # SP
GlyphsOf(line) == SelectSeq(line, IsGlyphToken)

\* C1: without a text-generation credential generate_eid_message returns exactly
\* DEFAULT_MESSAGE, whatever the other arguments are, makes no remote call and
\* selects no glyphs.
C1_NoCredentialDefault ==
    (m_entry = "generate_eid_message" /\ ~Truthy(openrouter_key))
        => /\ m_pc = "done"
           /\ m_result = DEFAULT_MESSAGE
           /\ llm_calls = <<>>
           /\ llm_outcome = "none"
           /\ emojis = <<>>

C1_Witness ==
    /\ m_entry = "generate_eid_message" /\ openrouter_key = "" /\ tone = "funny"
    /\ m_pc = "done" /\ m_result = DEFAULT_MESSAGE

\* C2: with a credential and a failed remote call the composer returns exactly
\* DEFAULT_MESSAGE, for every tone and every glyph setting.
C2_FailureReturnsDefault ==
    (m_pc = "done" /\ llm_outcome = "failed") => m_result = DEFAULT_MESSAGE

\* C3: with glyph count n > 0 and a tone that has a glyph set, the result is the
\* generated text between two identical lines of min(n, |set|) pairwise distinct
\* glyphs of that set; otherwise the result is the generated text itself.
C3_GlyphSelection ==
    (m_pc = "done" /\ llm_outcome # "none") =>
        IF emoji_count > 0 /\ tone \in DOMAIN EMOJI_SETS
        THEN LET set == Range(EMOJI_SETS[tone])
                 k == Min(emoji_count, Cardinality(set))
                 first == FirstLine(m_result)
                 last == LastLine(m_result)
                 picked == GlyphsOf(first)
             IN /\ Len(picked) = k
                /\ Range(picked) \subseteq set
                /\ Cardinality(Range(picked)) = k
                /\ first = Join(picked, SP)
                /\ last = first
                /\ m_result = first \o <<NL>> \o response \o <<NL>> \o last
        ELSE m_result = response

C3_Witness ==
    /\ m_pc = "done" /\ llm_outcome = "ok" /\ tone = "religious"
    /\ emoji_count = 11 /\ Len(emojis) = 10
    /\ Len(m_result) = Len(response) + 2 + 2 * 19


-----------------------------------------------------------------------------
(***************************************************************************)
(* Background resolver                                                     *)
(***************************************************************************)

\* utils/image_utils.py:11-20.
IMAGE_CATEGORIES ==
    << "Eid Moon & Stars", "Mosque Architecture", "Islamic Patterns", "Eid Celebration",
       "Lanterns & Lights", "Calligraphy Art", "Geometric Patterns", "Nature & Flowers" >>

\* utils/image_utils.py:22-31.
SEARCH_TERMS ==
    ("Eid Moon & Stars" :>
        <<"crescent moon night", "eid moon", "ramadan moon stars", "night sky mosque">>)
    @@ ("Mosque Architecture" :>
        <<"grand mosque", "islamic architecture", "beautiful mosque", "mosque interior">>)
    @@ ("Islamic Patterns" :>
        <<"islamic pattern", "arabic pattern", "islamic geometric", "islamic art">>)
    @@ ("Eid Celebration" :>
        <<"eid celebration", "eid decoration", "eid festival", "eid lights">>)
    @@ ("Lanterns & Lights" :>
        <<"ramadan lanterns", "islamic lanterns", "moroccan lamps", "oriental lights">>)
    @@ ("Calligraphy Art" :>
        <<"islamic calligraphy", "arabic calligraphy", "islamic art", "arabic script art">>)
    @@ ("Geometric Patterns" :>
        <<"geometric pattern", "moroccan pattern", "islamic geometry", "arabesque pattern">>)
    @@ ("Nature & Flowers" :>
        <<"islamic garden", "arabic floral", "islamic floral", "moroccan garden">>)

\* utils/image_utils.py:84.
fallback_categories == <<"Islamic Patterns", "Geometric Patterns", "Nature & Flowers">>

\* utils/image_utils.py:77 (the same numbers are sent as min_width / min_height).
MinWidth == 1200
MinHeight == 800

\* utils/__init__.py:16-25.
BACKGROUND_CATEGORIES ==
    << "islamic architecture", "mosque", "islamic patterns", "ramadan",
       "eid celebration", "lanterns", "crescent moon", "islamic art" >>

\* Categories a caller of image_utils.get_pexels_image passes: the known ones
\* and one that SEARCH_TERMS does not hold.
CategoryInputs == Range(IMAGE_CATEGORIES) \cup {"Sunsets"}

\* Values of PEXELS_API_KEY: unset, set but empty, set.
PexelsKeyValues == {NoneVal, "", "px-key"}

\* Photos the search service knows; the sizes sit on both sides of the threshold.
PhotoCatalog ==
    { [width |-> 1200, height |-> 800, src |-> [large2x |-> "https://img/1/large2x"]],
      [width |-> 1199, height |-> 800, src |-> [large2x |-> "https://img/2/large2x"]],
      [width |-> 1200, height |-> 799, src |-> [large2x |-> "https://img/3/large2x"]],
      [width |-> 2400, height |-> 1600, src |-> [large2x |-> "https://img/4/large2x"]] }

\* Longest photo list in one response.
MaxPhotos == 2

\* Largest max_retries a caller of utils.get_pexels_image passes.
MaxRetriesArg == 3

RECURSIVE SeqsUpTo(_, _)
SeqsUpTo(S, n) ==
    IF n = 0 THEN {<<>>}
    ELSE SeqsUpTo(S, n - 1)
           \cup {Append(s, x) : s \in {t \in SeqsUpTo(S, n - 1) : Len(t) = n - 1}, x \in S}

\* Decoded bodies of successful search responses: total_results counts the
\* matches, photos is the first page, so one is empty exactly when the other is 0.
SearchData ==
    { [total_results |-> IF p = <<>> THEN 0 ELSE Len(p) + 40, photos |-> p] :
        p \in SeqsUpTo(PhotoCatalog, MaxPhotos) }

\* Outcomes of one requests.get + raise_for_status + json.
SearchOutcomes ==
    [kind : {"ok"}, data : SearchData]
      \cup [kind : {"connection_error", "http_error"}, data : {NoneVal}]

\* The decision of the primary loop on one response (image_utils.py:71-81):
\* the photos it may return.
QualityPhotos(d) ==
    IF d.total_results > 0 /\ d.photos # <<>>
    THEN {d.photos[i] : i \in {k \in 1..Len(d.photos) :
              d.photos[k].width >= MinWidth /\ d.photos[k].height >= MinHeight}}
    ELSE {}

\* The decision of the fallback loop on one response (image_utils.py:96-100).
AnyPhotos(d) ==
    IF d.total_results > 0 /\ d.photos # <<>> THEN Range(d.photos) ELSE {}

\* What one response held, for the request log.
Got(outcome) ==
    IF outcome.kind # "ok" THEN "error"
    ELSE IF outcome.data.photos = <<>> THEN "empty"
    ELSE IF \E i \in 1..Len(outcome.data.photos) :
                /\ outcome.data.photos[i].width >= 1200
                /\ outcome.data.photos[i].height >= 800
         THEN "fit"
    ELSE "unfit"

LogEntry(query, phase, outcome) == [query |-> query, phase |-> phase, got |-> Got(outcome)]

ResolverInit ==
    /\ r_pc = "start"
    /\ r_impl = "none"
    /\ pexels_key \in PexelsKeyValues
    /\ category = "none"
    /\ search_phase = "none"
    /\ cat_idx = 0
    /\ term_idx = 0
    /\ max_retries = 0
    /\ r_attempt = 0
    /\ r_sleeps = {}
    /\ data = NoneVal
    /\ requests_log = <<>>
    /\ r_result = NoneVal
    /\ r_outcome = "running"
    \* the other components at rest
    /\ m_pc = "start"
    /\ m_entry = "none"
    /\ openrouter_key = NoneVal
    /\ tone = "none"
    /\ emoji_count = 0
    /\ llm_calls = <<>>
    /\ llm_outcome = "none"
    /\ response = <<>>
    /\ emojis = <<>>
    /\ m_result = NoneVal
    /\ d_pc = "start"
    /\ d_impl = "none"
    /\ card_message = <<>>
    /\ theme = <<>>
    /\ output_path = NoneVal
    /\ attempt = 0
    /\ downloads = <<>>
    /\ sleeps = {}
    /\ bg_image = Unassigned
    /\ clean_message = <<>>
    /\ temp_files = {}
    /\ output_tries = <<>>
    /\ d_result = NoneVal
    /\ d_outcome = "running"
    /\ p_pc = "start"
    /\ theme_name = NoneVal
    /\ style = <<>>
    /\ preview_args = <<>>
    /\ preview_html = <<>>
    /\ s_pc = "idle"
    /\ s_handler = "none"
    /\ s_args = <<>>
    /\ s_result = "none"
    /\ cards = <<>>
    /\ current_background = NoneVal
    /\ background_category = "islamic patterns"
    /\ background_url = NoneVal
    /\ fonts = <<>>
    /\ resolver_calls = 0
    /\ run_pc = "start"
    /\ run_args = <<>>
    /\ run_message = <<>>
    /\ run_theme_name = NoneVal
    /\ run_theme = <<>>
    /\ run_outcome = "running"

\* image_utils.py:46.
SearchTermsFor(c) == Get(SEARCH_TERMS, c, SEARCH_TERMS["Islamic Patterns"])

\* image_utils.py:33-46: the credential check and the choice of the term list.
image_get_pexels_image(c) ==
    /\ r_pc = "start"
    /\ r_impl' = "image_utils"
    /\ category' = c
    /\ IF ~Truthy(pexels_key)
       THEN /\ r_result' = NoneVal
            /\ r_outcome' = "returned"
            /\ r_pc' = "done"
            /\ UNCHANGED <<search_phase, term_idx>>
       ELSE /\ search_phase' = "primary"
            /\ term_idx' = 1
            /\ r_pc' = "search"
            /\ UNCHANGED <<r_result, r_outcome>>
    /\ UNCHANGED <<pexels_key, cat_idx, max_retries, r_attempt, r_sleeps, data,
                   requests_log>>

\* A primary loop that takes any photo of the response.
search_primary_nofilter(outcome) ==
    /\ r_pc = "search" /\ r_impl = "image_utils" /\ search_phase = "primary"
    /\ requests_log' = Append(requests_log,
           LogEntry(SearchTermsFor(category)[term_idx], "primary", outcome))
    /\ IF outcome.kind # "ok"
       THEN /\ r_result' = NoneVal /\ r_outcome' = "returned" /\ r_pc' = "done"
            /\ UNCHANGED <<data, search_phase, cat_idx, term_idx>>
       ELSE /\ data' = outcome.data
            /\ IF AnyPhotos(outcome.data) # {}
               THEN /\ \E chosen_photo \in AnyPhotos(outcome.data) :
                          r_result' = chosen_photo.src.large2x
                    /\ r_outcome' = "returned" /\ r_pc' = "done"
                    /\ UNCHANGED <<search_phase, cat_idx, term_idx>>
               ELSE /\ IF term_idx < Len(SearchTermsFor(category))
                       THEN term_idx' = term_idx + 1 /\ UNCHANGED <<search_phase, cat_idx>>
                       ELSE search_phase' = "fallback" /\ cat_idx' = 1 /\ term_idx' = 1
                    /\ UNCHANGED <<r_result, r_outcome, r_pc>>
    /\ UNCHANGED <<r_impl, pexels_key, category, max_retries, r_attempt, r_sleeps>>

\* A primary loop that notes the chosen photo but goes on to the next term.
search_primary_noreturn(outcome) ==
    /\ r_pc = "search" /\ r_impl = "image_utils" /\ search_phase = "primary"
    /\ requests_log' = Append(requests_log,
           LogEntry(SearchTermsFor(category)[term_idx], "primary", outcome))
    /\ IF outcome.kind # "ok"
       THEN /\ r_result' = NoneVal /\ r_outcome' = "returned" /\ r_pc' = "done"
            /\ UNCHANGED <<data, search_phase, cat_idx, term_idx>>
       ELSE /\ data' = outcome.data
            /\ IF QualityPhotos(outcome.data) # {}
               THEN \E chosen_photo \in QualityPhotos(outcome.data) :
                        r_result' = chosen_photo.src.large2x
               ELSE UNCHANGED r_result
            /\ IF term_idx < Len(SearchTermsFor(category))
               THEN /\ term_idx' = term_idx + 1
                    /\ UNCHANGED <<search_phase, cat_idx, r_outcome, r_pc>>
               ELSE /\ r_outcome' = "returned" /\ r_pc' = "done"
                    /\ UNCHANGED <<search_phase, cat_idx, term_idx>>
    /\ UNCHANGED <<r_impl, pexels_key, category, max_retries, r_attempt, r_sleeps>>

\* image_utils.py:49-81: one iteration of the loop over the category's terms.
\* Any exception ends in the handler of lines 106-108.
search_primary(outcome) ==
    /\ r_pc = "search" /\ r_impl = "image_utils" /\ search_phase = "primary"
    /\ requests_log' = Append(requests_log,
           LogEntry(SearchTermsFor(category)[term_idx], "primary", outcome))
    /\ IF outcome.kind # "ok"
       THEN /\ r_result' = NoneVal /\ r_outcome' = "returned" /\ r_pc' = "done"
            /\ UNCHANGED <<data, search_phase, cat_idx, term_idx>>
       ELSE /\ data' = outcome.data
            /\ IF QualityPhotos(outcome.data) # {}
               THEN /\ \E chosen_photo \in QualityPhotos(outcome.data) :
                          r_result' = chosen_photo.src.large2x
                    /\ r_outcome' = "returned" /\ r_pc' = "done"
                    /\ UNCHANGED <<search_phase, cat_idx, term_idx>>
               ELSE /\ IF term_idx < Len(SearchTermsFor(category))
                       THEN term_idx' = term_idx + 1 /\ UNCHANGED <<search_phase, cat_idx>>
                       ELSE search_phase' = "fallback" /\ cat_idx' = 1 /\ term_idx' = 1
                    /\ UNCHANGED <<r_result, r_outcome, r_pc>>
    /\ UNCHANGED <<r_impl, pexels_key, category, max_retries, r_attempt, r_sleeps>>

\* A fallback loop that gives up after the first fallback category.
search_fallback_onecategory(outcome) ==
    /\ r_pc = "search" /\ r_impl = "image_utils" /\ search_phase = "fallback"
    /\ requests_log' = Append(requests_log,
           LogEntry(SEARCH_TERMS[fallback_categories[cat_idx]][term_idx], "fallback", outcome))
    /\ IF outcome.kind # "ok"
       THEN /\ r_result' = NoneVal /\ r_outcome' = "returned" /\ r_pc' = "done"
            /\ UNCHANGED <<data, cat_idx, term_idx>>
       ELSE /\ data' = outcome.data
            /\ IF AnyPhotos(outcome.data) # {}
               THEN /\ \E chosen_photo \in AnyPhotos(outcome.data) :
                          r_result' = chosen_photo.src.large2x
                    /\ r_outcome' = "returned" /\ r_pc' = "done"
                    /\ UNCHANGED <<cat_idx, term_idx>>
               ELSE IF term_idx < Len(SEARCH_TERMS[fallback_categories[cat_idx]])
                    THEN /\ term_idx' = term_idx + 1
                         /\ UNCHANGED <<cat_idx, r_result, r_outcome, r_pc>>
                    ELSE /\ r_result' = NoneVal /\ r_outcome' = "returned" /\ r_pc' = "done"
                         /\ UNCHANGED <<cat_idx, term_idx>>
    /\ UNCHANGED <<r_impl, pexels_key, category, search_phase, max_retries, r_attempt,
                   r_sleeps>>

\* A fallback loop outside the try block: a failed request leaves the function
\* as an exception.
search_fallback_uncaught(outcome) ==
    /\ r_pc = "search" /\ r_impl = "image_utils" /\ search_phase = "fallback"
    /\ requests_log' = Append(requests_log,
           LogEntry(SEARCH_TERMS[fallback_categories[cat_idx]][term_idx], "fallback", outcome))
    /\ IF outcome.kind # "ok"
       THEN /\ r_outcome' = "raised" /\ r_pc' = "done"
            /\ UNCHANGED <<data, cat_idx, term_idx, r_result>>
       ELSE /\ data' = outcome.data
            /\ IF AnyPhotos(outcome.data) # {}
               THEN /\ \E chosen_photo \in AnyPhotos(outcome.data) :
                          r_result' = chosen_photo.src.large2x
                    /\ r_outcome' = "returned" /\ r_pc' = "done"
                    /\ UNCHANGED <<cat_idx, term_idx>>
               ELSE IF term_idx < Len(SEARCH_TERMS[fallback_categories[cat_idx]])
                    THEN /\ term_idx' = term_idx + 1
                         /\ UNCHANGED <<cat_idx, r_result, r_outcome, r_pc>>
                    ELSE IF cat_idx < Len(fallback_categories)
                    THEN /\ cat_idx' = cat_idx + 1 /\ term_idx' = 1
                         /\ UNCHANGED <<r_result, r_outcome, r_pc>>
                    ELSE /\ r_result' = NoneVal /\ r_outcome' = "returned" /\ r_pc' = "done"
                         /\ UNCHANGED <<cat_idx, term_idx>>
    /\ UNCHANGED <<r_impl, pexels_key, category, search_phase, max_retries, r_attempt,
                   r_sleeps>>

\* image_utils.py:84-104: one iteration of the loops over the fallback
\* categories and their terms; after the last one None is returned.
search_fallback(outcome) ==
    /\ r_pc = "search" /\ r_impl = "image_utils" /\ search_phase = "fallback"
    /\ requests_log' = Append(requests_log,
           LogEntry(SEARCH_TERMS[fallback_categories[cat_idx]][term_idx], "fallback", outcome))
    /\ IF outcome.kind # "ok"
       THEN /\ r_result' = NoneVal /\ r_outcome' = "returned" /\ r_pc' = "done"
            /\ UNCHANGED <<data, cat_idx, term_idx>>
       ELSE /\ data' = outcome.data
            /\ IF AnyPhotos(outcome.data) # {}
               THEN /\ \E chosen_photo \in AnyPhotos(outcome.data) :
                          r_result' = chosen_photo.src.large2x
                    /\ r_outcome' = "returned" /\ r_pc' = "done"
                    /\ UNCHANGED <<cat_idx, term_idx>>
               ELSE IF term_idx < Len(SEARCH_TERMS[fallback_categories[cat_idx]])
                    THEN /\ term_idx' = term_idx + 1
                         /\ UNCHANGED <<cat_idx, r_result, r_outcome, r_pc>>
                    ELSE IF cat_idx < Len(fallback_categories)
                    THEN /\ cat_idx' = cat_idx + 1 /\ term_idx' = 1
                         /\ UNCHANGED <<r_result, r_outcome, r_pc>>
                    ELSE /\ r_result' = NoneVal /\ r_outcome' = "returned" /\ r_pc' = "done"
                         /\ UNCHANGED <<cat_idx, term_idx>>
    /\ UNCHANGED <<r_impl, pexels_key, category, search_phase, max_retries, r_attempt,
                   r_sleeps>>

ImageGetPexelsImage ==
    /\ r_pc = "start"
    /\ \E c \in CategoryInputs : image_get_pexels_image(c)
    /\ UNCHANGED <<composerVars, renderVars, previewVars, sessionVars, runnerVars>>

SearchPrimary ==
    /\ r_pc = "search" /\ search_phase = "primary"
    /\ \E outcome \in SearchOutcomes : search_primary(outcome)
    /\ UNCHANGED <<composerVars, renderVars, previewVars, sessionVars, runnerVars>>

SearchFallback ==
    /\ r_pc = "search" /\ search_phase = "fallback"
    /\ \E outcome \in SearchOutcomes : search_fallback(outcome)
    /\ UNCHANGED <<composerVars, renderVars, previewVars, sessionVars, runnerVars>>

\* utils/__init__.py:27-50: the credential check and the entry to the retry loop
\* (a loop over range(0) falls through to the final `return None`).
utils_get_pexels_image(query, api_key, k) ==
    /\ r_pc = "start"
    /\ r_impl' = "utils"
    /\ category' = query
    /\ max_retries' = k
    /\ IF ~Truthy(IF Truthy(api_key) THEN api_key ELSE pexels_key)
       THEN /\ r_outcome' = "raised" /\ r_pc' = "done"
       ELSE IF k = 0
       THEN /\ r_outcome' = "returned" /\ r_pc' = "done"
       ELSE /\ r_pc' = "attempt" /\ UNCHANGED r_outcome
    /\ UNCHANGED <<pexels_key, search_phase, cat_idx, term_idx, r_attempt, r_sleeps, data,
                   requests_log, r_result>>

\* utils_attempt with the last failure turned into a None result.
utils_attempt_swallow(outcome) ==
    /\ r_pc = "attempt" /\ r_impl = "utils"
    /\ requests_log' = Append(requests_log, LogEntry(category, "retry", outcome))
    /\ IF outcome.kind = "ok"
       THEN /\ data' = outcome.data
            /\ IF outcome.data.photos = <<>>
               THEN r_result' = NoneVal
               ELSE \E photo \in Range(outcome.data.photos) : r_result' = photo.src.large2x
            /\ r_outcome' = "returned" /\ r_pc' = "done"
            /\ UNCHANGED <<r_attempt, r_sleeps>>
       ELSE IF r_attempt = max_retries - 1
       THEN /\ r_outcome' = "returned" /\ r_pc' = "done"
            /\ UNCHANGED <<data, r_result, r_attempt, r_sleeps>>
       ELSE /\ r_sleeps' = r_sleeps \cup {r_attempt}
            /\ r_attempt' = r_attempt + 1
            /\ UNCHANGED <<data, r_result, r_outcome, r_pc>>
    /\ UNCHANGED <<r_impl, pexels_key, category, search_phase, cat_idx, term_idx,
                   max_retries>>

\* utils/__init__.py:52-67: one pass of the retry loop.
utils_attempt(outcome) ==
    /\ r_pc = "attempt" /\ r_impl = "utils"
    /\ requests_log' = Append(requests_log, LogEntry(category, "retry", outcome))
    /\ IF outcome.kind = "ok"
       THEN /\ data' = outcome.data
            /\ IF outcome.data.photos = <<>>
               THEN r_result' = NoneVal
               ELSE \E photo \in Range(outcome.data.photos) : r_result' = photo.src.large2x
            /\ r_outcome' = "returned" /\ r_pc' = "done"
            /\ UNCHANGED <<r_attempt, r_sleeps>>
       ELSE IF r_attempt = max_retries - 1
       THEN /\ r_outcome' = "raised" /\ r_pc' = "done"
            /\ UNCHANGED <<data, r_result, r_attempt, r_sleeps>>
       ELSE /\ r_sleeps' = r_sleeps \cup {r_attempt}
            /\ r_attempt' = r_attempt + 1
            /\ UNCHANGED <<data, r_result, r_outcome, r_pc>>
    /\ UNCHANGED <<r_impl, pexels_key, category, search_phase, cat_idx, term_idx,
                   max_retries>>

UtilsGetPexelsImage ==
    /\ r_pc = "start"
    /\ \E query \in Range(BACKGROUND_CATEGORIES), api_key \in {NoneVal, "px-arg"},
       k \in 0..MaxRetriesArg :
        utils_get_pexels_image(query, api_key, k)
    /\ UNCHANGED <<composerVars, renderVars, previewVars, sessionVars, runnerVars>>

UtilsAttempt ==
    /\ r_pc = "attempt"
    /\ \E outcome \in SearchOutcomes : utils_attempt(outcome)
    /\ UNCHANGED <<composerVars, renderVars, previewVars, sessionVars, runnerVars>>

\* ---- claims about the resolver, checked under SpecResolver

PhotoOfUrl(u) == CHOOSE p \in PhotoCatalog : p.src.large2x = u

MeetsMinimum(p) == p.width >= 1200 /\ p.height >= 800

\* Positions of the request log that belong to one loop.
PhaseEntries(phase) == {i \in 1..Len(requests_log) : requests_log[i].phase = phase}

\* The request order the resolver is to follow for category c: the category's
\* terms (those of "Islamic Patterns" when it is unknown), then the terms of
\* the three fallback categories.
ExpectedQueries(c) ==
    (IF c \in DOMAIN SEARCH_TERMS THEN SEARCH_TERMS[c] ELSE SEARCH_TERMS["Islamic Patterns"])
        \o SEARCH_TERMS["Islamic Patterns"]
        \o SEARCH_TERMS["Geometric Patterns"]
        \o SEARCH_TERMS["Nature & Flowers"]

\* Every term was asked and none yielded: no qualifying photo in the primary
\* loop, no photo at all in the fallback loop.
NothingYielded ==
    /\ Len(requests_log) = 4 + 12
    /\ \A i \in PhaseEntries("primary") : requests_log[i].got \in {"empty", "unfit"}
    /\ \A i \in PhaseEntries("fallback") : requests_log[i].got = "empty"

\* C4: a URL returned from the primary loop belongs to a photo of at least
\* 1200 x 800; a smaller photo's URL comes from the fallback loop only, and the
\* fallback loop runs only after all primary terms yielded no qualifying photo.
C4_PrimaryMeetsMinimum ==
    r_impl = "image_utils" =>
        /\ (search_phase = "fallback" \/ PhaseEntries("fallback") # {}) =>
              /\ Cardinality(PhaseEntries("primary")) = 4
              /\ \A i \in PhaseEntries("primary") :
                    /\ requests_log[i].got \in {"empty", "unfit"}
                    /\ requests_log[i].query = ExpectedQueries(category)[i]
        /\ (r_pc = "done" /\ r_result # NoneVal) =>
              LET last == requests_log[Len(requests_log)]
              IN /\ last.phase = "primary" => MeetsMinimum(PhotoOfUrl(r_result))
                 /\ ~MeetsMinimum(PhotoOfUrl(r_result)) => last.phase = "fallback"

C4_Witness ==
    /\ r_impl = "image_utils" /\ r_pc = "done" /\ category = "Mosque Architecture"
    /\ r_result = "https://img/2/large2x"
    /\ requests_log[Len(requests_log)].phase = "fallback"

\* C5: with a credential and no transport error, None is returned exactly when
\* all 4 + 12 requests were made and none yielded; there are never more than
\* 16 requests and the call ends by returning.
C5_NoneIffNothingYielded ==
    r_impl = "image_utils" =>
        /\ Len(requests_log) <= 4 + 12
        /\ r_outcome # "raised"
        /\ r_pc # "done" => Len(requests_log) < 4 + 12
        /\ (/\ r_pc = "done" /\ Truthy(pexels_key)
            /\ \A i \in 1..Len(requests_log) : requests_log[i].got # "error")
              => /\ r_outcome = "returned"
                 /\ r_result = NoneVal <=> NothingYielded

C5_Witness ==
    /\ r_impl = "image_utils" /\ r_pc = "done" /\ Truthy(pexels_key)
    /\ r_result = NoneVal /\ NothingYielded
    /\ \E i \in PhaseEntries("primary") : requests_log[i].got = "unfit"

\* C6: requests follow the term lists in order, one per term, and a primary
\* response with a qualifying photo ends the call at once with the URL of a
\* qualifying photo of that response: it is the last request.
C6_InOrderStopAtFirst ==
    r_impl = "image_utils" =>
        /\ \A i \in 1..Len(requests_log) :
              /\ requests_log[i].query = ExpectedQueries(category)[i]
              /\ requests_log[i].phase = IF i <= 4 THEN "primary" ELSE "fallback"
        /\ \A i \in PhaseEntries("primary") :
              requests_log[i].got = "fit" =>
                  /\ i = Len(requests_log)
                  /\ r_pc = "done"
                  /\ \E k \in 1..Len(data.photos) :
                        /\ MeetsMinimum(data.photos[k])
                        /\ r_result = data.photos[k].src.large2x

C6_Witness ==
    /\ r_impl = "image_utils" /\ r_pc = "done" /\ Len(requests_log) = 3
    /\ requests_log[3].got = "fit" /\ requests_log[2].got = "unfit"
    /\ r_result = "https://img/4/large2x"

\* What the caller sees of a search that ran and found nothing (see C5).
NoResultsOutcome == <<"returned", NoneVal>>

\* C7: without a photo-search credential the resolver ends without a request,
\* and what the caller sees differs from the outcome of a search without results.
C7_MissingKeyDistinct ==
    (r_impl = "image_utils" /\ r_pc = "done" /\ ~Truthy(pexels_key))
        => /\ requests_log = <<>>
           /\ <<r_outcome, r_result>> # NoResultsOutcome

FailedRequests == {i \in 1..Len(requests_log) : requests_log[i].got = "error"}

-----------------------------------------------------------------------------
(***************************************************************************)
(* Document renderer                                                       *)
(* Loading the font files (main.py:143-145, pdf_generator.py:73-82) is     *)
(* taken to succeed.                                                       *)
(***************************************************************************)

\* main.py:148.
PdfMaxRetries == 3

\* main.py:177: Image.new('RGB', (2100, 2970), (255, 255, 255)).
SolidCanvas == [mode |-> "RGB", size |-> <<2100, 2970>>, color |-> <<255, 255, 255>>]

\* An image decoded from the downloaded bytes.
DownloadedImage == [mode |-> "RGB", size |-> <<1880, 1253>>, color |-> <<>>]

\* main.py:207-209: the phrases removed from the message, each as two tokens.
BoilerplatePhrases ==
    << <<"[No Hadith included", " per your request]">>,
       <<"Note: Do not include any signature,", " HTML tags, or styling code.">>,
       <<"Note: No signature, HTML tags,", " or styling code is included in this message.">> >>

\* emoji.EMOJI_DATA as far as the model's tokens go: every glyph name.
EmojiData ==
    UNION {Range(EMOJI_SETS[t]) : t \in DOMAIN EMOJI_SETS} \cup {"moon", "sparkles"}

\* main.py:230-232.
is_emoji(char) == char \in EmojiData

\* The glyphs the ranges of remove_emojis cover (pdf_generator.py:54-61): the
\* code points above U+1F6FF (hug, partying, palms) lie outside all of them.
RegexEmoji == EmojiData \ {"hug", "partying", "palms"}

\* pdf_generator.py:52-62.
remove_emojis(text) == SelectSeq(text, LAMBDA t : t \notin RegexEmoji)

\* str.replace(pat, ""): occurrences are found left to right, in one pass.
RECURSIVE RemoveAll(_, _)
RemoveAll(s, pat) ==
    IF Len(s) < Len(pat) THEN s
    ELSE IF SubSeq(s, 1, Len(pat)) = pat
         THEN RemoveAll(SubSeq(s, Len(pat) + 1, Len(s)), pat)
         ELSE <<Head(s)>> \o RemoveAll(Tail(s), pat)

\* str.split('\n')
RECURSIVE SplitLines(_)
SplitLines(s) ==
    IF NL \notin Range(s) THEN <<s>>
    ELSE <<FirstLine(s)>> \o SplitLines(SubSeq(s, Len(FirstLine(s)) + 2, Len(s)))

\* '\n'.join(lines)
RECURSIVE JoinLines(_)
JoinLines(lines) ==
    IF lines = <<>> THEN <<>>
    ELSE IF Len(lines) = 1 THEN lines[1]
    ELSE lines[1] \o <<NL>> \o JoinLines(Tail(lines))

RECURSIVE StripEach(_)
StripEach(lines) ==
    IF lines = <<>> THEN <<>> ELSE <<Strip(Head(lines))>> \o StripEach(Tail(lines))

\* main.py:206-211: the message as handed to multi_cell.
CleanForPdf(message) ==
    LET m1 == RemoveAll(message, BoilerplatePhrases[1])
        m2 == RemoveAll(m1, BoilerplatePhrases[2])
        m3 == RemoveAll(m2, BoilerplatePhrases[3])
        kept == SelectSeq(StripEach(SplitLines(m3)), LAMBDA line : line # <<>>)
        m4 == JoinLines(kept)
    IN SelectSeq(m4, LAMBDA char : ~is_emoji(char))

\* Longest message, in tokens, that is rendered.
MaxMessageLen == 3

MessageAlphabet ==
    {NL, SP, "moon", "Eid Mubarak!", BoilerplatePhrases[1][1], BoilerplatePhrases[1][2]}

\* Messages of the cards that are rendered.
RenderMessages == SeqsUpTo(MessageAlphabet, MaxMessageLen) \cup {DEFAULT_MESSAGE}

\* A colour string, one character per element.
Hex(a, b, c, d, e, f) == <<"#", a, b, c, d, e, f>>

HexDigits == {"0", "1", "2", "3", "4", "5", "6", "7", "8", "9", "a", "b", "c", "d", "e", "f"}

\* Theme dictionaries handed to create_pdf: none of the keys, the two colour
\* keys, the Classic entry of tools.style_card (which has neither key), and a
\* three-digit colour.
ThemeInputs ==
    { <<>>,
      [text_color |-> Hex("1", "a", "1", "a", "1", "a"),
       title_color |-> Hex("4", "a", "4", "a", "4", "a")],
      [font_family |-> <<"serif">>, color |-> Hex("1", "a", "1", "a", "1", "a"),
       background |-> Hex("f", "f", "f", "f", "f", "f")],
      [text_color |-> <<"#", "f", "f", "f">>] }

\* Python's s[a:b] (0-based, end excluded; out-of-range bounds are clipped).
Slice(s, a, b) == SubSeq(s, a + 1, Min(b, Len(s)))

\* int(text, 16) raises ValueError unless text is a non-empty run of hex digits.
IntBase16Fails(text) == text = <<>> \/ \E i \in 1..Len(text) : text[i] \notin HexDigits

\* The three int(colour[i:i+2], 16) calls of pdf_generator.py:87-91 / 130-134.
ColourFails(colour) ==
    \/ IntBase16Fails(Slice(colour, 1, 3))
    \/ IntBase16Fails(Slice(colour, 3, 5))
    \/ IntBase16Fails(Slice(colour, 5, 7))

\* Outcomes of one download attempt (main.py:153-171).  requests' errors and
\* IOError are the ones the except clause names; PIL's DecompressionBombError
\* for an oversized image is an Exception outside both.
DownloadOutcomes == {"ok", "request_exception", "io_error", "decompression_bomb"}

CaughtDownloadErrors == {"request_exception", "io_error"}

RenderInit ==
    /\ d_pc = "start"
    /\ d_impl = "none"
    /\ card_message = <<>>
    /\ theme = <<>>
    /\ output_path = NoneVal
    /\ attempt = 0
    /\ downloads = <<>>
    /\ sleeps = {}
    /\ bg_image = Unassigned
    /\ clean_message = <<>>
    /\ temp_files = {}
    /\ output_tries = <<>>
    /\ d_result = NoneVal
    /\ d_outcome = "running"
    \* the other components at rest
    /\ m_pc = "start"
    /\ m_entry = "none"
    /\ openrouter_key = NoneVal
    /\ tone = "none"
    /\ emoji_count = 0
    /\ llm_calls = <<>>
    /\ llm_outcome = "none"
    /\ response = <<>>
    /\ emojis = <<>>
    /\ m_result = NoneVal
    /\ r_pc = "start"
    /\ r_impl = "none"
    /\ pexels_key = NoneVal
    /\ category = "none"
    /\ search_phase = "none"
    /\ cat_idx = 0
    /\ term_idx = 0
    /\ max_retries = 0
    /\ r_attempt = 0
    /\ r_sleeps = {}
    /\ data = NoneVal
    /\ requests_log = <<>>
    /\ r_result = NoneVal
    /\ r_outcome = "running"
    /\ p_pc = "start"
    /\ theme_name = NoneVal
    /\ style = <<>>
    /\ preview_args = <<>>
    /\ preview_html = <<>>
    /\ s_pc = "idle"
    /\ s_handler = "none"
    /\ s_args = <<>>
    /\ s_result = "none"
    /\ cards = <<>>
    /\ current_background = NoneVal
    /\ background_category = "islamic patterns"
    /\ background_url = NoneVal
    /\ fonts = <<>>
    /\ resolver_calls = 0
    /\ run_pc = "start"
    /\ run_args = <<>>
    /\ run_message = <<>>
    /\ run_theme_name = NoneVal
    /\ run_theme = <<>>
    /\ run_outcome = "running"

\* main.py:135-151: the document object is set up and the retry loop entered.
create_pdf_card(message) ==
    /\ d_pc = "start"
    /\ d_impl' = "create_pdf_card"
    /\ card_message' = message
    /\ attempt' = 0
    /\ d_pc' = "download"
    /\ UNCHANGED <<theme, output_path, downloads, sleeps, bg_image, clean_message,
                   temp_files, output_tries, d_result, d_outcome>>

\* A retry loop whose last-attempt test is off by one.
download_attempt_offbyone(outcome) ==
    /\ d_pc = "download" /\ d_impl = "create_pdf_card"
    /\ downloads' = Append(downloads, outcome)
    /\ IF outcome = "ok"
       THEN /\ bg_image' = DownloadedImage
            /\ d_pc' = "compose"
            /\ UNCHANGED <<attempt, sleeps, d_outcome>>
       ELSE IF outcome \in CaughtDownloadErrors
       THEN IF attempt = PdfMaxRetries
            THEN /\ bg_image' = SolidCanvas
                 /\ d_pc' = "compose"
                 /\ UNCHANGED <<attempt, sleeps, d_outcome>>
            ELSE /\ sleeps' = sleeps \cup {attempt}
                 /\ IF attempt + 1 < PdfMaxRetries
                    THEN attempt' = attempt + 1 /\ UNCHANGED d_pc
                    ELSE d_pc' = "compose" /\ UNCHANGED attempt
                 /\ UNCHANGED <<bg_image, d_outcome>>
       ELSE /\ d_outcome' = "raised" /\ d_pc' = "done"
            /\ UNCHANGED <<attempt, sleeps, bg_image>>
    /\ UNCHANGED <<d_impl, card_message, theme, output_path, clean_message, temp_files,
                   output_tries, d_result>>

\* main.py:151-181: one pass of the retry loop.
download_attempt(outcome) ==
    /\ d_pc = "download" /\ d_impl = "create_pdf_card"
    /\ downloads' = Append(downloads, outcome)
    /\ IF outcome = "ok"
       THEN /\ bg_image' = DownloadedImage
            /\ d_pc' = "compose"
            /\ UNCHANGED <<attempt, sleeps, d_outcome>>
       ELSE IF outcome \in CaughtDownloadErrors
       THEN IF attempt = PdfMaxRetries - 1
            THEN /\ bg_image' = SolidCanvas
                 /\ d_pc' = "compose"
                 /\ UNCHANGED <<attempt, sleeps, d_outcome>>
            ELSE /\ sleeps' = sleeps \cup {attempt}
                 /\ attempt' = attempt + 1
                 /\ UNCHANGED <<bg_image, d_pc, d_outcome>>
       ELSE /\ d_outcome' = "raised" /\ d_pc' = "done"
            /\ UNCHANGED <<attempt, sleeps, bg_image>>
    /\ UNCHANGED <<d_impl, card_message, theme, output_path, clean_message, temp_files,
                   output_tries, d_result>>

\* main.py:183-194: overlay, temporary PNG, pdf.image, os.unlink.  A failure of
\* save or pdf.image leaves the function before the unlink.
compose_background(outcome) ==
    /\ d_pc = "compose" /\ d_impl = "create_pdf_card"
    /\ IF outcome = "ok"
       THEN /\ temp_files' = (temp_files \cup {"bg.png"}) \ {"bg.png"}
            /\ d_pc' = "layout"
            /\ UNCHANGED d_outcome
       ELSE /\ temp_files' = temp_files \cup {"bg.png"}
            /\ d_outcome' = "raised" /\ d_pc' = "done"
    /\ UNCHANGED <<d_impl, card_message, theme, output_path, attempt, downloads, sleeps,
                   bg_image, clean_message, output_tries, d_result>>

\* main.py:196-223: title, cleaned message, salutation, signature.
layout_card ==
    /\ d_pc = "layout" /\ d_impl = "create_pdf_card"
    /\ clean_message' = CleanForPdf(card_message)
    /\ d_pc' = "output"
    /\ UNCHANGED <<d_impl, card_message, theme, output_path, attempt, downloads, sleeps,
                   bg_image, temp_files, output_tries, d_result, d_outcome>>

\* main.py:225-228: the temporary PDF is created and written; nothing catches
\* a failure of pdf.output.
write_card(outcome) ==
    /\ d_pc = "output" /\ d_impl = "create_pdf_card"
    /\ temp_files' = temp_files \cup {"card.pdf"}
    /\ output_tries' = Append(output_tries, [document |-> "full", outcome |-> outcome])
    /\ IF outcome = "ok"
       THEN d_result' = "card.pdf" /\ d_outcome' = "returned"
       ELSE d_outcome' = "raised" /\ UNCHANGED d_result
    /\ d_pc' = "done"
    /\ UNCHANGED <<d_impl, card_message, theme, output_path, attempt, downloads, sleeps,
                   bg_image, clean_message>>

\* pdf_generator.py:125-164: EidCard(theme), add_page (which runs header()),
\* the colours, the cleaned text, and the choice of the output path.
create_pdf(message, th, path) ==
    /\ d_pc = "start"
    /\ d_impl' = "create_pdf"
    /\ card_message' = message
    /\ theme' = th
    /\ IF \/ ColourFails(Get(th, "title_color", Hex("4", "a", "4", "a", "4", "a")))
          \/ ColourFails(Get(th, "text_color", Hex("0", "0", "0", "0", "0", "0")))
       THEN /\ d_outcome' = "raised" /\ d_pc' = "done"
            /\ UNCHANGED <<output_path, clean_message, temp_files>>
       ELSE /\ clean_message' = remove_emojis(message)
            /\ IF path = NoneVal
               THEN output_path' = "tmp.pdf" /\ temp_files' = temp_files \cup {"tmp.pdf"}
               ELSE output_path' = path /\ UNCHANGED temp_files
            /\ d_pc' = "output"
            /\ UNCHANGED d_outcome
    /\ UNCHANGED <<attempt, downloads, sleeps, bg_image, output_tries, d_result>>

\* pdf_generator.py:166-168, 179: the full document is written.
pdf_output(outcome) ==
    /\ d_pc = "output" /\ d_impl = "create_pdf"
    /\ output_tries' = Append(output_tries, [document |-> "full", outcome |-> outcome])
    /\ IF outcome = "ok"
       THEN d_result' = output_path /\ d_outcome' = "returned" /\ d_pc' = "done"
       ELSE d_pc' = "fallback" /\ UNCHANGED <<d_result, d_outcome>>
    /\ UNCHANGED <<d_impl, card_message, theme, output_path, attempt, downloads, sleeps,
                   bg_image, clean_message, temp_files>>

\* pdf_generator.py:168-179: the minimal document is built and written to the
\* same path; this second pdf.output is not guarded.
pdf_output_fallback(outcome) ==
    /\ d_pc = "fallback" /\ d_impl = "create_pdf"
    /\ output_tries' = Append(output_tries, [document |-> "minimal", outcome |-> outcome])
    /\ IF outcome = "ok"
       THEN d_result' = output_path /\ d_outcome' = "returned"
       ELSE d_outcome' = "raised" /\ UNCHANGED d_result
    /\ d_pc' = "done"
    /\ UNCHANGED <<d_impl, card_message, theme, output_path, attempt, downloads, sleeps,
                   bg_image, clean_message, temp_files>>

\* main.py:401-413, the display loop after create_pdf_card came back: the
\* document is read into the download button and removed.  When create_pdf_card
\* raised, the script run ends there and nothing is removed.  The next display
\* starts with fresh locals; the files on disk stay as they are.
display_download ==
    /\ d_pc = "done" /\ d_impl = "create_pdf_card"
    /\ temp_files' = IF d_outcome = "returned" THEN temp_files \ {d_result} ELSE temp_files
    /\ d_pc' = "start"
    /\ d_impl' = "none"
    /\ card_message' = <<>>
    /\ attempt' = 0
    /\ downloads' = <<>>
    /\ sleeps' = {}
    /\ bg_image' = Unassigned
    /\ clean_message' = <<>>
    /\ output_tries' = <<>>
    /\ d_result' = NoneVal
    /\ d_outcome' = "running"
    /\ UNCHANGED <<theme, output_path>>

\* Outcomes of pdf.output on the full document: written, refused because of
\* its content, or refused by the file system.
OutputOutcomes == {"ok", "encoding_error", "os_error"}

\* The minimal document holds fixed ASCII text only: its content is never refused.
FallbackOutputOutcomes == {"ok", "os_error"}

CreatePdfCard ==
    /\ d_pc = "start"
    /\ \E message \in RenderMessages : create_pdf_card(message)
    /\ UNCHANGED <<composerVars, resolverVars, previewVars, sessionVars, runnerVars>>

DownloadAttempt ==
    /\ d_pc = "download"
    /\ \E outcome \in DownloadOutcomes : download_attempt(outcome)
    /\ UNCHANGED <<composerVars, resolverVars, previewVars, sessionVars, runnerVars>>

ComposeBackground ==
    /\ d_pc = "compose"
    /\ \E outcome \in {"ok", "os_error"} : compose_background(outcome)
    /\ UNCHANGED <<composerVars, resolverVars, previewVars, sessionVars, runnerVars>>

LayoutCard ==
    /\ layout_card
    /\ UNCHANGED <<composerVars, resolverVars, previewVars, sessionVars, runnerVars>>

WriteCard ==
    /\ d_pc = "output"
    /\ \E outcome \in OutputOutcomes : write_card(outcome)
    /\ UNCHANGED <<composerVars, resolverVars, previewVars, sessionVars, runnerVars>>

CreatePdf ==
    /\ d_pc = "start"
    /\ \E message \in RenderMessages, th \in ThemeInputs, path \in {NoneVal, "out/card.pdf"} :
          create_pdf(message, th, path)
    /\ UNCHANGED <<composerVars, resolverVars, previewVars, sessionVars, runnerVars>>

PdfOutput ==
    /\ d_pc = "output"
    /\ \E outcome \in OutputOutcomes : pdf_output(outcome)
    /\ UNCHANGED <<composerVars, resolverVars, previewVars, sessionVars, runnerVars>>

PdfOutputFallback ==
    /\ d_pc = "fallback"
    /\ \E outcome \in FallbackOutputOutcomes : pdf_output_fallback(outcome)
    /\ UNCHANGED <<composerVars, resolverVars, previewVars, sessionVars, runnerVars>>

DisplayDownload ==
    /\ display_download
    /\ UNCHANGED <<composerVars, resolverVars, previewVars, sessionVars, runnerVars>>

\* ---- claims about the renderer, checked under SpecRender

\* C9: create_pdf_card makes at most 3 download attempts and stops at the first
\* success; three failures give the white 2100 x 2970 canvas; when the loop
\* ends bg_image is defined; the wait follows the 1st and 2nd failure only.
C9_DownloadRetry ==
    d_impl = "create_pdf_card" =>
        /\ Len(downloads) <= 3
        /\ \A i \in 1..Len(downloads) :
              downloads[i] = "ok" => (i = Len(downloads) /\ bg_image = DownloadedImage)
        /\ d_pc \in {"compose", "layout", "output"} => bg_image # Unassigned
        /\ (Len(downloads) = 3 /\ \A i \in 1..3 : downloads[i] \in CaughtDownloadErrors)
              => /\ d_pc # "download"
                 /\ bg_image = [mode |-> "RGB", size |-> <<2100, 2970>>,
                                color |-> <<255, 255, 255>>]
        /\ sleeps = {i - 1 : i \in {k \in 1..Len(downloads) :
                          downloads[k] \in CaughtDownloadErrors /\ k < 3}}

C9_Witness ==
    /\ d_impl = "create_pdf_card" /\ d_pc = "compose"
    /\ downloads = <<"request_exception", "io_error", "request_exception">>
    /\ bg_image = SolidCanvas /\ sleeps = {0, 1}

\* C10: rendering never raises: every call ends by returning the path of a
\* written file.
C10_RenderNeverThrows ==
    /\ d_outcome # "raised"
    /\ d_pc = "done" =>
          /\ d_result # NoneVal
          /\ output_tries # <<>>
          /\ output_tries[Len(output_tries)].outcome = "ok"

\* C11: when writing the full document fails, the minimal document is written
\* to the same path and that path is returned; the failure never reaches the
\* caller.
C11_FallbackAlwaysSucceeds ==
    (d_pc = "done" /\ output_tries # <<>> /\ output_tries[1].outcome # "ok")
        => /\ d_outcome = "returned"
           /\ Len(output_tries) = 2
           /\ output_tries[2] = [document |-> "minimal", outcome |-> "ok"]
           /\ d_impl = "create_pdf" => d_result = output_path

\* C12: once a display step is over, whether the render returned or raised, no
\* temporary file of create_pdf_card is left on disk.
C12_TempFilesDeleted ==
    d_pc = "start" => temp_files \cap {"bg.png", "card.pdf"} = {}

\* A text with a line that is empty or holds blanks only.
HasBlankLine(s) ==
    s # <<>> /\ \E i \in 1..Len(SplitLines(s)) : Strip(SplitLines(s)[i]) = <<>>

\* pat occurs in s as a run of consecutive tokens.
Occurs(pat, s) ==
    \E i \in 1..(Len(s) - Len(pat) + 1) : SubSeq(s, i, i + Len(pat) - 1) = pat

\* C19: the text handed to the layout of create_pdf_card holds no boilerplate
\* phrase, no blank line and no glyph, and every other token of the message
\* is kept, in order.
C19_CleanupComplete ==
    (d_impl = "create_pdf_card" /\ d_pc = "output")
        => /\ \A i \in 1..Len(BoilerplatePhrases) :
                 ~Occurs(BoilerplatePhrases[i], clean_message)
           /\ ~HasBlankLine(clean_message)
           /\ \A i \in 1..Len(clean_message) : ~is_emoji(clean_message[i])
           /\ SelectSeq(clean_message, LAMBDA t : ~IsSpace(t))
                = SelectSeq(RemoveAll(RemoveAll(RemoveAll(card_message,
                                BoilerplatePhrases[1]), BoilerplatePhrases[2]),
                                BoilerplatePhrases[3]),
                            LAMBDA t : ~IsSpace(t) /\ ~is_emoji(t))

-----------------------------------------------------------------------------
(***************************************************************************)
(* Theme catalog (tools.py) and preview renderer (pdf_generator.py)        *)
(***************************************************************************)

\* tools.py:11-27.
themes ==
    [ Classic |-> [font_family |-> <<"'Playfair Display', serif">>,
                   color |-> Hex("1", "a", "1", "a", "1", "a"),
                   background |-> Hex("f", "f", "f", "f", "f", "f")],
      Modern |-> [font_family |-> <<"'Roboto', sans-serif">>,
                  color |-> Hex("3", "3", "3", "3", "3", "3"),
                  background |-> Hex("f", "5", "f", "5", "f", "5")],
      Elegant |-> [font_family |-> <<"'Cormorant Garamond', serif">>,
                   color |-> Hex("2", "c", "3", "e", "5", "0"),
                   background |-> Hex("e", "c", "f", "0", "f", "1")] ]

\* A catalog whose fallback is the Modern entry.
style_card_defaultmodern(th) == Get(themes, th, themes["Modern"])

\* tools.py:7-28: themes.get(theme, themes["Classic"]).
style_card(th) == Get(themes, th, themes["Classic"])

\* Names handed to style_card: the three of the catalog, two of them in another
\* case, the empty name and a name the catalog does not hold.
ThemeNames == {"Classic", "Modern", "Elegant", "classic", "MODERN", "", "Royal"}

\* str.replace('\n', '<br>')
BreakLines(message) ==
    [i \in 1..Len(message) |-> IF message[i] = NL THEN "<br>" ELSE message[i]]

\* A preview whose title colour falls back to the text default.
create_preview_titledefault(message, recipient, th) ==
    [ font_link |-> "https://fonts.googleapis.com/css2?family=Roboto:wght@400;700&display=swap",
      bg_color |-> Get(th, "bg_color", Hex("f", "f", "f", "f", "f", "f")),
      text_color |-> Get(th, "text_color", Hex("0", "0", "0", "0", "0", "0")),
      title_color |-> Get(th, "title_color", Hex("0", "0", "0", "0", "0", "0")),
      recipient |-> recipient,
      message_html |-> BreakLines(message) ]

\* pdf_generator.py:181-236: the fragment, by its interpolated fields.
create_preview(message, recipient, th) ==
    [ font_link |-> "https://fonts.googleapis.com/css2?family=Roboto:wght@400;700&display=swap",
      bg_color |-> Get(th, "bg_color", Hex("f", "f", "f", "f", "f", "f")),
      text_color |-> Get(th, "text_color", Hex("0", "0", "0", "0", "0", "0")),
      title_color |-> Get(th, "title_color", Hex("4", "a", "4", "a", "4", "a")),
      recipient |-> recipient,
      message_html |-> BreakLines(message) ]

\* Theme dictionaries handed to create_preview: those of create_pdf and one
\* that supplies all three colours.
PreviewThemes ==
    ThemeInputs \cup
      { [bg_color |-> Hex("0", "0", "3", "3", "0", "0"),
         text_color |-> Hex("f", "a", "f", "a", "f", "a"),
         title_color |-> Hex("d", "4", "a", "f", "3", "7")] }

PreviewInit ==
    /\ p_pc = "start"
    /\ theme_name = NoneVal
    /\ style = <<>>
    /\ preview_args = <<>>
    /\ preview_html = <<>>
    \* the other components at rest
    /\ m_pc = "start"
    /\ m_entry = "none"
    /\ openrouter_key = NoneVal
    /\ tone = "none"
    /\ emoji_count = 0
    /\ llm_calls = <<>>
    /\ llm_outcome = "none"
    /\ response = <<>>
    /\ emojis = <<>>
    /\ m_result = NoneVal
    /\ r_pc = "start"
    /\ r_impl = "none"
    /\ pexels_key = NoneVal
    /\ category = "none"
    /\ search_phase = "none"
    /\ cat_idx = 0
    /\ term_idx = 0
    /\ max_retries = 0
    /\ r_attempt = 0
    /\ r_sleeps = {}
    /\ data = NoneVal
    /\ requests_log = <<>>
    /\ r_result = NoneVal
    /\ r_outcome = "running"
    /\ d_pc = "start"
    /\ d_impl = "none"
    /\ card_message = <<>>
    /\ theme = <<>>
    /\ output_path = NoneVal
    /\ attempt = 0
    /\ downloads = <<>>
    /\ sleeps = {}
    /\ bg_image = Unassigned
    /\ clean_message = <<>>
    /\ temp_files = {}
    /\ output_tries = <<>>
    /\ d_result = NoneVal
    /\ d_outcome = "running"
    /\ s_pc = "idle"
    /\ s_handler = "none"
    /\ s_args = <<>>
    /\ s_result = "none"
    /\ cards = <<>>
    /\ current_background = NoneVal
    /\ background_category = "islamic patterns"
    /\ background_url = NoneVal
    /\ fonts = <<>>
    /\ resolver_calls = 0
    /\ run_pc = "start"
    /\ run_args = <<>>
    /\ run_message = <<>>
    /\ run_theme_name = NoneVal
    /\ run_theme = <<>>
    /\ run_outcome = "running"

\* A caller looks a theme up in the catalog.
CallStyleCard ==
    /\ p_pc = "start"
    /\ \E name \in ThemeNames :
          /\ theme_name' = name
          /\ style' = style_card(name)
    /\ p_pc' = "styled"
    /\ UNCHANGED <<preview_args, preview_html>>
    /\ UNCHANGED <<composerVars, resolverVars, renderVars, sessionVars, runnerVars>>

\* A caller renders a preview with a theme dictionary of its own.
CallCreatePreview ==
    /\ p_pc = "start"
    /\ \E message \in RenderMessages, recipient \in Recipients, th \in PreviewThemes :
          /\ preview_args' = [message |-> message, recipient |-> recipient, theme |-> th]
          /\ preview_html' = create_preview(message, recipient, th)
    /\ p_pc' = "done"
    /\ UNCHANGED <<theme_name, style>>
    /\ UNCHANGED <<composerVars, resolverVars, renderVars, sessionVars, runnerVars>>

\* runner.py:58-71: the preview of a card is rendered with the dictionary the
\* catalog returned.
PreviewCatalogTheme ==
    /\ p_pc = "styled"
    /\ \E message \in RenderMessages, recipient \in Recipients :
          /\ preview_args' = [message |-> message, recipient |-> recipient, theme |-> style]
          /\ preview_html' = create_preview(message, recipient, style)
    /\ p_pc' = "done"
    /\ UNCHANGED <<theme_name, style>>
    /\ UNCHANGED <<composerVars, resolverVars, renderVars, sessionVars, runnerVars>>

\* ---- claims about the catalog and the preview, checked under SpecPreview

\* C15: style_card returns the own entry of Classic, Modern and Elegant, and
\* the Classic entry for every other name, names in another case included.
C15_CatalogLookup ==
    p_pc # "start" /\ theme_name # NoneVal =>
        /\ theme_name = "Classic" =>
              style = [font_family |-> <<"'Playfair Display', serif">>,
                       color |-> <<"#", "1", "a", "1", "a", "1", "a">>,
                       background |-> <<"#", "f", "f", "f", "f", "f", "f">>]
        /\ theme_name = "Modern" =>
              style = [font_family |-> <<"'Roboto', sans-serif">>,
                       color |-> <<"#", "3", "3", "3", "3", "3", "3">>,
                       background |-> <<"#", "f", "5", "f", "5", "f", "5">>]
        /\ theme_name = "Elegant" =>
              style = [font_family |-> <<"'Cormorant Garamond', serif">>,
                       color |-> <<"#", "2", "c", "3", "e", "5", "0">>,
                       background |-> <<"#", "e", "c", "f", "0", "f", "1">>]
        /\ theme_name \notin {"Classic", "Modern", "Elegant"} =>
              style = [font_family |-> <<"'Playfair Display', serif">>,
                       color |-> <<"#", "1", "a", "1", "a", "1", "a">>,
                       background |-> <<"#", "f", "f", "f", "f", "f", "f">>]

C15_Witness ==
    /\ p_pc = "styled" /\ theme_name = "classic"
    /\ style.color = <<"#", "1", "a", "1", "a", "1", "a">>

\* C17: in the fragment of create_preview every newline of the message is a
\* line break and nothing else is changed, and a colour the theme does not
\* supply is #ffffff (background), #000000 (text) or #4a4a4a (title).
C17_PreviewDefaults ==
    p_pc = "done" =>
        LET a == preview_args
            h == preview_html
            Colour(key, default) ==
                IF key \in DOMAIN a.theme THEN a.theme[key] ELSE default
        IN /\ Len(h.message_html) = Len(a.message)
           /\ \A i \in 1..Len(a.message) :
                 /\ h.message_html[i] # NL
                 /\ a.message[i] = NL => h.message_html[i] = "<br>"
                 /\ a.message[i] # NL => h.message_html[i] = a.message[i]
           /\ h.recipient = a.recipient
           /\ h.bg_color = Colour("bg_color", <<"#", "f", "f", "f", "f", "f", "f">>)
           /\ h.text_color = Colour("text_color", <<"#", "0", "0", "0", "0", "0", "0">>)
           /\ h.title_color = Colour("title_color", <<"#", "4", "a", "4", "a", "4", "a">>)

C17_Witness ==
    /\ p_pc = "done" /\ preview_args.theme = <<>>
    /\ NL \in Range(preview_args.message)
    /\ preview_html.title_color = <<"#", "4", "a", "4", "a", "4", "a">>

\* C18: the preview of a card styled by the catalog carries the text colour and
\* the background colour of the catalog entry.
C18_PreviewUsesCatalogColours ==
    (p_pc = "done" /\ theme_name # NoneVal) =>
        /\ preview_html.text_color = style.color
        /\ preview_html.bg_color = style.background

-----------------------------------------------------------------------------
(***************************************************************************)
(* The Streamlit session (main.py): the form, create_card, the background  *)
(* controls, the card list with its delete buttons and downloads.  One     *)
(* handler runs at a time; the resolver, the composer and the renderer run *)
(* as its callees and their frames are gone when it ends.                  *)
(***************************************************************************)

\* main.py:256.
DefaultBackground == "https://images.pexels.com/photos/1939485/pexels-photo-1939485.jpeg"

\* utils/__init__.py:27: the default of max_retries, which main.py never overrides.
DefaultMaxRetries == 3

\* font_utils.py:8-38, 54-55: the combinations download_google_fonts() picks from.
FontCombinations ==
    { [title |-> "Playfair Display", body |-> "Source Sans Pro"],
      [title |-> "Roboto", body |-> "Open Sans"],
      [title |-> "Cormorant Garamond", body |-> "Lato"],
      [title |-> "Merriweather", body |-> "Roboto"],
      [title |-> "Lora", body |-> "Open Sans"] }

\* A tone map that sends funny to Classic.
theme_map_funnyclassic ==
    [formal |-> "Classic", emotional |-> "Elegant", funny |-> "Classic",
     religious |-> "Classic"]

\* main.py:273-278.
theme_map ==
    [formal |-> "Classic", emotional |-> "Elegant", funny |-> "Modern",
     religious |-> "Classic"]

\* main.py:268-269: the phrases create_card removes, each as two tokens.
CardBoilerplate ==
    << <<"[No Hadith included,", " as per your requirements]">>,
       <<"Note: No signature, HTML tags,", " or styling code is included in this message.">> >>

\* main.py:268-270: the two phrases are removed, then the lines that are empty
\* or blank are dropped (the lines that stay are not stripped).
CleanForCard(message) ==
    LET m1 == RemoveAll(message, CardBoilerplate[1])
        m2 == RemoveAll(m1, CardBoilerplate[2])
    IN JoinLines(SelectSeq(SplitLines(m2), LAMBDA line : Strip(line) # <<>>))

\* The frame of a resolver call is gone; the environment stays.
ResolverReturns ==
    /\ r_pc' = "start"
    /\ r_impl' = "none"
    /\ category' = "none"
    /\ search_phase' = "none"
    /\ cat_idx' = 0
    /\ term_idx' = 0
    /\ max_retries' = 0
    /\ r_attempt' = 0
    /\ r_sleeps' = {}
    /\ data' = NoneVal
    /\ requests_log' = <<>>
    /\ r_result' = NoneVal
    /\ r_outcome' = "running"
    /\ UNCHANGED pexels_key

\* The frame of a composer call is gone; the environment stays.
ComposerReturns ==
    /\ m_pc' = "start"
    /\ m_entry' = "none"
    /\ tone' = "none"
    /\ emoji_count' = 0
    /\ llm_calls' = <<>>
    /\ llm_outcome' = "none"
    /\ response' = <<>>
    /\ emojis' = <<>>
    /\ m_result' = NoneVal
    /\ UNCHANGED openrouter_key

\* The locals of a handler are gone.
HandlerReturns ==
    /\ s_pc' = "idle"
    /\ s_args' = <<>>
    /\ background_url' = NoneVal
    /\ fonts' = <<>>
    /\ resolver_calls' = 0

\* main.py:238-251: the fonts are picked (`picked` is the combination
\* random.choice returns), the session's background is used if there is one,
\* otherwise the photo search is called.
create_card(recipient_name, sender_name, t, include_hadith, include_emojis, picked) ==
    /\ s_pc = "idle"
    /\ s_handler' = "create_card"
    /\ s_result' = "none"
    /\ s_args' = [recipient_name |-> recipient_name, sender_name |-> sender_name,
                  tone |-> t, include_hadith |-> include_hadith,
                  include_emojis |-> include_emojis]
    /\ fonts' = picked
    /\ background_url' = current_background
    /\ IF Truthy(current_background)
       THEN /\ s_pc' = "message"
            /\ resolver_calls' = 0
            /\ UNCHANGED resolverVars
       ELSE /\ s_pc' = "search"
            /\ resolver_calls' = 1
            /\ utils_get_pexels_image(background_category, NoneVal, DefaultMaxRetries)
    /\ UNCHANGED <<cards, current_background, background_category>>

\* main.py:335-352: the form is submitted; create_card is called only when
\* both names are given.
submit_form(recipient_name, sender_name, t, include_hadith, include_emojis, picked) ==
    IF recipient_name # "" /\ sender_name # ""
    THEN create_card(recipient_name, sender_name, t, include_hadith, include_emojis, picked)
    ELSE /\ s_pc = "idle"
         /\ s_handler' = "submit_form"
         /\ s_result' = "rejected"
         /\ UNCHANGED <<s_pc, s_args, cards, current_background, background_category,
                        background_url, fonts, resolver_calls>>
         /\ UNCHANGED resolverVars

\* A create_card that does not keep the URL it found in the session.
create_card_background_nostore ==
    /\ s_pc = "search" /\ s_handler = "create_card" /\ r_pc = "done"
    /\ IF r_outcome = "raised"
       THEN /\ s_result' = "False"
            /\ HandlerReturns
            /\ UNCHANGED current_background
       ELSE /\ IF Truthy(r_result)
               THEN background_url' = r_result
               ELSE background_url' = DefaultBackground
            /\ s_pc' = "message"
            /\ UNCHANGED <<s_result, s_args, fonts, resolver_calls, current_background>>
    /\ ResolverReturns
    /\ UNCHANGED <<s_handler, cards, background_category>>

\* main.py:251-256 once the search is over, and 295-297 when it raised: the
\* exception is caught by create_card, which reports it and returns False.
\* Either way the frame of the search is gone.
create_card_background ==
    /\ s_pc = "search" /\ s_handler = "create_card" /\ r_pc = "done"
    /\ IF r_outcome = "raised"
       THEN /\ s_result' = "False"
            /\ HandlerReturns
            /\ UNCHANGED current_background
       ELSE /\ IF Truthy(r_result)
               THEN /\ current_background' = r_result
                    /\ background_url' = r_result
               ELSE /\ background_url' = DefaultBackground
                    /\ UNCHANGED current_background
            /\ s_pc' = "message"
            /\ UNCHANGED <<s_result, s_args, fonts, resolver_calls>>
    /\ ResolverReturns
    /\ UNCHANGED <<s_handler, cards, background_category>>

\* main.py:258-265: the call of generate_eid_message.
create_card_message ==
    /\ s_pc = "message" /\ s_handler = "create_card"
    /\ generate_eid_message(s_args.recipient_name, s_args.tone, s_args.sender_name,
                            s_args.include_hadith, FALSE, s_args.include_emojis)
    /\ s_pc' = "compose"
    /\ UNCHANGED <<s_handler, s_args, s_result, cards, current_background,
                   background_category, background_url, fonts, resolver_calls>>

\* The card create_card builds (main.py:267-289).
NewCard ==
    [ recipient |-> s_args.recipient_name,
      sender |-> s_args.sender_name,
      message |-> CleanForCard(m_result),
      background_url |-> background_url,
      style |-> style_card(Get(theme_map, s_args.tone, "Classic")),
      fonts |-> fonts ]

\* A create_card that puts the new card at the end of the list.
create_card_finish_atend ==
    /\ s_pc = "compose" /\ s_handler = "create_card" /\ m_pc = "done"
    /\ cards' = Append(cards, NewCard)
    /\ s_result' = "True"
    /\ HandlerReturns
    /\ ComposerReturns
    /\ UNCHANGED <<s_handler, current_background, background_category>>

\* main.py:267-294: the message is cleaned, the style looked up, the card built
\* and inserted at the head of the list; create_card returns True.
create_card_finish ==
    /\ s_pc = "compose" /\ s_handler = "create_card" /\ m_pc = "done"
    /\ cards' = <<NewCard>> \o cards
    /\ s_result' = "True"
    /\ HandlerReturns
    /\ ComposerReturns
    /\ UNCHANGED <<s_handler, current_background, background_category>>

\* main.py:234-236, called by the category selectbox (366-368, with the newly
\* selected category c) and by the refresh button (371-372).
refresh_background(c) ==
    /\ s_pc = "idle"
    /\ s_handler' = "refresh_background"
    /\ s_result' = "none"
    /\ background_category' = c
    /\ s_pc' = "search"
    /\ resolver_calls' = 1
    /\ utils_get_pexels_image(c, NoneVal, DefaultMaxRetries)
    /\ UNCHANGED <<s_args, cards, current_background, background_url, fonts>>

\* main.py:236 once the search is over: whatever it returned is stored; when
\* it raised, nothing is stored and the script run ends with the exception.
refresh_background_end ==
    /\ s_pc = "search" /\ s_handler = "refresh_background" /\ r_pc = "done"
    /\ IF r_outcome = "raised"
       THEN s_result' = "raised" /\ UNCHANGED current_background
       ELSE s_result' = "returned" /\ current_background' = r_result
    /\ HandlerReturns
    /\ ResolverReturns
    /\ UNCHANGED <<s_handler, cards, background_category>>

\* main.py:416-418: the delete button of card i, st.session_state.cards.pop(i).
delete_card(i) ==
    /\ s_pc = "idle"
    /\ i \in 0..(Len(cards) - 1)
    /\ s_handler' = "delete_card"
    /\ s_result' = "returned"
    /\ s_args' = [index |-> i]
    /\ cards' = SubSeq(cards, 1, i) \o SubSeq(cards, i + 2, Len(cards))
    /\ UNCHANGED <<s_pc, current_background, background_category, background_url, fonts,
                   resolver_calls>>

\* main.py:384-401: card i is shown and create_pdf_card is called with it.
display_card(i) ==
    /\ s_pc = "idle"
    /\ i \in 0..(Len(cards) - 1)
    /\ s_handler' = "display_card"
    /\ s_result' = "none"
    /\ s_args' = [index |-> i]
    /\ s_pc' = "display"
    /\ create_pdf_card(cards[i + 1].message)
    /\ UNCHANGED <<cards, current_background, background_category, background_url, fonts,
                   resolver_calls>>

\* main.py:403-413: the download button and the removal of the document.
display_card_end ==
    /\ s_pc = "display" /\ s_handler = "display_card"
    /\ s_result' = IF d_outcome = "returned" THEN "returned" ELSE "raised"
    /\ display_download
    /\ HandlerReturns
    /\ UNCHANGED <<s_handler, cards, current_background, background_category>>

\* Largest number of cards in the session list.
MaxCards == 3

\* The names typed into the form; either may be left empty.
FormRecipients == {"", "Ali"}
FormSenders == {"", "Sara"}

\* Responses of the photo search while a card list is built: one photo, none,
\* or a transport error.
SessionSearchOutcomes ==
    [kind : {"ok"},
     data : { [total_results |-> 41,
               photos |-> <<CHOOSE ph \in PhotoCatalog : ph.width = 2400>>],
              [total_results |-> 0, photos |-> <<>>] }]
      \cup [kind : {"connection_error"}, data : {NoneVal}]

\* The form is submitted while the list has room; the font pick is fixed.
SubmitForm ==
    /\ s_pc = "idle" /\ Len(cards) < MaxCards
    /\ \E recipient_name \in FormRecipients, sender_name \in FormSenders, t \in Tones,
          include_hadith \in BOOLEAN, include_emojis \in BOOLEAN,
          picked \in {[title |-> "Playfair Display", body |-> "Source Sans Pro"]} :
        submit_form(recipient_name, sender_name, t, include_hadith, include_emojis, picked)
    /\ UNCHANGED <<composerVars, renderVars, previewVars, runnerVars>>

\* The form is submitted in a session without cards.
SubmitFirstForm ==
    /\ s_pc = "idle" /\ cards = <<>>
    /\ \E recipient_name \in FormRecipients, sender_name \in FormSenders, t \in Tones,
          include_hadith \in BOOLEAN, include_emojis \in BOOLEAN,
          picked \in FontCombinations :
        submit_form(recipient_name, sender_name, t, include_hadith, include_emojis, picked)
    /\ UNCHANGED <<composerVars, renderVars, previewVars, runnerVars>>

SearchForBackground ==
    /\ s_pc = "search" /\ r_pc = "attempt"
    /\ \E outcome \in SessionSearchOutcomes : utils_attempt(outcome)
    /\ UNCHANGED <<composerVars, renderVars, previewVars, sessionVars, runnerVars>>

CreateCardBackground ==
    /\ create_card_background
    /\ UNCHANGED <<composerVars, renderVars, previewVars, runnerVars>>

CreateCardMessage ==
    /\ create_card_message
    /\ UNCHANGED <<resolverVars, renderVars, previewVars, runnerVars>>

CreateCardFinish ==
    /\ create_card_finish
    /\ UNCHANGED <<resolverVars, renderVars, previewVars, runnerVars>>

ClickRefresh ==
    /\ refresh_background(background_category)
    /\ UNCHANGED <<composerVars, renderVars, previewVars, runnerVars>>

\* The category selectbox or the refresh button, in a session without cards.
RefreshFirst ==
    /\ s_pc = "idle" /\ cards = <<>>
    /\ \E c \in Range(BACKGROUND_CATEGORIES) : refresh_background(c)
    /\ UNCHANGED <<composerVars, renderVars, previewVars, runnerVars>>

RefreshBackgroundEnd ==
    /\ refresh_background_end
    /\ UNCHANGED <<composerVars, renderVars, previewVars, runnerVars>>

DeleteCard ==
    /\ s_pc = "idle"
    /\ \E i \in 0..(MaxCards - 1) : delete_card(i)
    /\ UNCHANGED <<composerVars, resolverVars, renderVars, previewVars, runnerVars>>

DisplayCard ==
    /\ s_pc = "idle"
    /\ \E i \in 0..(MaxCards - 1) : display_card(i)
    /\ UNCHANGED <<composerVars, resolverVars, previewVars, runnerVars>>

DisplayDownloads ==
    /\ s_pc = "display" /\ d_pc = "download"
    /\ \E outcome \in {"ok", "request_exception"} : download_attempt(outcome)
    /\ UNCHANGED <<composerVars, resolverVars, previewVars, sessionVars, runnerVars>>

DisplayCompose ==
    /\ s_pc = "display" /\ d_pc = "compose"
    /\ compose_background("ok")
    /\ UNCHANGED <<composerVars, resolverVars, previewVars, sessionVars, runnerVars>>

DisplayWrite ==
    /\ s_pc = "display" /\ d_pc = "output"
    /\ \E outcome \in {"ok", "os_error"} : write_card(outcome)
    /\ UNCHANGED <<composerVars, resolverVars, previewVars, sessionVars, runnerVars>>

DisplayCardEnd ==
    /\ display_card_end
    /\ UNCHANGED <<composerVars, resolverVars, previewVars, runnerVars>>

\* A session in which no text-generation credential is configured.
SessionInit ==
    /\ s_pc = "idle"
    /\ s_handler = "none"
    /\ s_args = <<>>
    /\ s_result = "none"
    /\ cards = <<>>
    /\ current_background = NoneVal
    /\ background_category = "islamic patterns"
    /\ background_url = NoneVal
    /\ fonts = <<>>
    /\ resolver_calls = 0
    /\ run_pc = "start"
    /\ run_args = <<>>
    /\ run_message = <<>>
    /\ run_theme_name = NoneVal
    /\ run_theme = <<>>
    /\ run_outcome = "running"
    /\ m_pc = "start"
    /\ m_entry = "none"
    /\ openrouter_key = NoneVal
    /\ tone = "none"
    /\ emoji_count = 0
    /\ llm_calls = <<>>
    /\ llm_outcome = "none"
    /\ response = <<>>
    /\ emojis = <<>>
    /\ m_result = NoneVal
    /\ r_pc = "start"
    /\ r_impl = "none"
    /\ pexels_key \in PexelsKeyValues
    /\ category = "none"
    /\ search_phase = "none"
    /\ cat_idx = 0
    /\ term_idx = 0
    /\ max_retries = 0
    /\ r_attempt = 0
    /\ r_sleeps = {}
    /\ data = NoneVal
    /\ requests_log = <<>>
    /\ r_result = NoneVal
    /\ r_outcome = "running"
    /\ d_pc = "start"
    /\ d_impl = "none"
    /\ card_message = <<>>
    /\ theme = <<>>
    /\ output_path = NoneVal
    /\ attempt = 0
    /\ downloads = <<>>
    /\ sleeps = {}
    /\ bg_image = Unassigned
    /\ clean_message = <<>>
    /\ temp_files = {}
    /\ output_tries = <<>>
    /\ d_result = NoneVal
    /\ d_outcome = "running"
    /\ p_pc = "start"
    /\ theme_name = NoneVal
    /\ style = <<>>
    /\ preview_args = <<>>
    /\ preview_html = <<>>

\* A session under every configuration of the two credentials.
CardFlowInit ==
    /\ s_pc = "idle"
    /\ s_handler = "none"
    /\ s_args = <<>>
    /\ s_result = "none"
    /\ cards = <<>>
    /\ current_background = NoneVal
    /\ background_category = "islamic patterns"
    /\ background_url = NoneVal
    /\ fonts = <<>>
    /\ resolver_calls = 0
    /\ run_pc = "start"
    /\ run_args = <<>>
    /\ run_message = <<>>
    /\ run_theme_name = NoneVal
    /\ run_theme = <<>>
    /\ run_outcome = "running"
    /\ m_pc = "start"
    /\ m_entry = "none"
    /\ openrouter_key \in KeyValues
    /\ tone = "none"
    /\ emoji_count = 0
    /\ llm_calls = <<>>
    /\ llm_outcome = "none"
    /\ response = <<>>
    /\ emojis = <<>>
    /\ m_result = NoneVal
    /\ r_pc = "start"
    /\ r_impl = "none"
    /\ pexels_key \in PexelsKeyValues
    /\ category = "none"
    /\ search_phase = "none"
    /\ cat_idx = 0
    /\ term_idx = 0
    /\ max_retries = 0
    /\ r_attempt = 0
    /\ r_sleeps = {}
    /\ data = NoneVal
    /\ requests_log = <<>>
    /\ r_result = NoneVal
    /\ r_outcome = "running"
    /\ d_pc = "start"
    /\ d_impl = "none"
    /\ card_message = <<>>
    /\ theme = <<>>
    /\ output_path = NoneVal
    /\ attempt = 0
    /\ downloads = <<>>
    /\ sleeps = {}
    /\ bg_image = Unassigned
    /\ clean_message = <<>>
    /\ temp_files = {}
    /\ output_tries = <<>>
    /\ d_result = NoneVal
    /\ d_outcome = "running"
    /\ p_pc = "start"
    /\ theme_name = NoneVal
    /\ style = <<>>
    /\ preview_args = <<>>
    /\ preview_html = <<>>

\* ---- claims about the session, checked under SpecCardFlow and SpecSession

\* C13: a create_card that a valid submission started ends with a card in the
\* list, whatever failed on the way.
C13_AlwaysACard ==
    (s_pc = "idle" /\ s_handler = "create_card") => (s_result = "True" /\ cards # <<>>)

\* list.pop(i)
RemoveAt(s, i) == SubSeq(s, 1, i) \o SubSeq(s, i + 2, Len(s))

\* C14 as amended: the step that ends a successful creation puts exactly one
\* card in front of the cards there were, which keep their order; a click on
\* delete button i removes exactly the card at position i; every other step
\* (a failed creation, a refresh, a display, a rejected form) leaves the list
\* as it is.
C14_ListFrame ==
    [][ IF s_pc = "compose" /\ s_pc' = "idle"
        THEN /\ Len(cards') = Len(cards) + 1
             /\ Tail(cards') = cards
        ELSE IF s_pc = "idle" /\ s_pc' = "idle" /\ s_handler' = "delete_card"
        THEN /\ s_args'.index \in 0..(Len(cards) - 1)
             /\ Len(cards') = Len(cards) - 1
             /\ \A k \in 1..Len(cards') :
                   cards'[k] = IF k <= s_args'.index THEN cards[k] ELSE cards[k + 1]
        ELSE cards' = cards ]_vars

C14_Witness ==
    /\ s_pc = "idle" /\ s_handler = "delete_card" /\ s_args.index = 1
    /\ Len(cards) = 2 /\ cards[1] # cards[2]

\* C14 as claimed: a successful creation appends the new card, i.e. the cards
\* there were are followed by one new card; deletion and the other steps as above.
C14_CreationAppends ==
    [][ IF s_pc = "compose" /\ s_pc' = "idle"
        THEN /\ Len(cards') = Len(cards) + 1
             /\ SubSeq(cards', 1, Len(cards)) = cards
        ELSE IF s_pc = "idle" /\ s_pc' = "idle" /\ s_handler' = "delete_card"
        THEN cards' = RemoveAt(cards, s_args'.index)
        ELSE cards' = cards ]_vars

\* The default text once create_card has dropped its empty first and last line.
DefaultCardMessage == SubSeq(DEFAULT_MESSAGE, 2, Len(DEFAULT_MESSAGE) - 1)

\* C16 as amended: the style of the created card is the catalog entry of
\* Classic for formal and religious, Elegant for emotional, Modern for funny
\* and Classic for any other tone; without a text-generation credential the
\* card's message is the default text without its empty first and last line.
C16_ThemeFromTone ==
    [][ (s_pc = "compose" /\ s_pc' = "idle") =>
          LET t == s_args.tone
              card == cards'[1]
          IN /\ t \in {"formal", "religious"} => card.style = themes["Classic"]
             /\ t = "emotional" => card.style = themes["Elegant"]
             /\ t = "funny" => card.style = themes["Modern"]
             /\ t \notin {"formal", "religious", "emotional", "funny"}
                   => card.style = themes["Classic"]
             /\ (t = "formal" /\ ~Truthy(openrouter_key))
                   => card.message = DefaultCardMessage ]_vars

C16_Witness ==
    /\ s_pc = "idle" /\ s_handler = "create_card" /\ s_result = "True"
    /\ ~Truthy(openrouter_key)
    /\ cards[1].style = themes["Modern"]
    /\ cards[1].message = DefaultCardMessage

\* C16 as claimed: the same mapping, and with tone formal and no credential the
\* card's message is the fixed default text itself.
C16_DefaultMessageVerbatim ==
    [][ (s_pc = "compose" /\ s_pc' = "idle") =>
          LET t == s_args.tone
              card == cards'[1]
          IN /\ card.style = style_card(Get(theme_map, t, "Classic"))
             /\ (t = "formal" /\ ~Truthy(openrouter_key))
                   => card.message = DEFAULT_MESSAGE ]_vars

\* C20: create_card uses the session's background without a search when there
\* is one; otherwise it calls the search once, a URL that comes back becomes
\* the card's and the session's background, a None gives the card the default
\* URL and leaves the session's background unset.  The created card's
\* background is never empty.
C20_BackgroundSelection ==
    [][ /\ (s_pc = "idle" /\ s_handler' = "create_card" /\ s_pc' \in {"message", "search"})
            => IF Truthy(current_background)
               THEN /\ s_pc' = "message"
                    /\ background_url' = current_background
                    /\ resolver_calls' = 0
                    /\ r_pc' = "start" /\ requests_log' = <<>>
               ELSE /\ s_pc' = "search"
                    /\ resolver_calls' = 1
                    /\ r_impl' = "utils"
        /\ (s_handler = "create_card" /\ s_pc = "search" /\ s_pc' = "message")
            => /\ resolver_calls' = 1
               /\ IF Truthy(r_result)
                  THEN background_url' = r_result /\ current_background' = r_result
                  ELSE /\ background_url' = "https://images.pexels.com/photos/1939485/pexels-photo-1939485.jpeg"
                       /\ current_background' = NoneVal
        /\ (s_pc = "compose" /\ s_pc' = "idle")
            => /\ cards'[1].background_url = background_url
               /\ Truthy(cards'[1].background_url)
               /\ resolver_calls <= 1 ]_vars

C20_Witness ==
    /\ s_pc = "idle" /\ s_handler = "create_card" /\ s_result = "True"
    /\ cards[1].background_url = DefaultBackground
    /\ current_background = NoneVal

-----------------------------------------------------------------------------
(***************************************************************************)
(* Card runner (runner.py)                                                 *)
(***************************************************************************)

\* Texts the remote service may answer the theme prompt with.
ThemeAnswers ==
    { <<"classic">>, <<"modern">>, <<SP, "Modern", NL>>, <<"elegant">>, <<"ELEGANT">>,
      <<"minimal">>, <<"modern", SP, "theme">> }

\* Outcomes of the remote call made for the theme prompt.
ThemeOutcomes ==
    [kind : {"ok"}, text : ThemeAnswers]
      \cup [kind : {"timeout", "service_error"}, text : {<<>>}]

\* str.lower() on the tokens whose case matters to the membership test of
\* suggest_theme; a token of any other text stands for its lowercase form.
LowerCase ==
    [ Classic |-> "classic", CLASSIC |-> "classic", Modern |-> "modern",
      MODERN |-> "modern", Elegant |-> "elegant", ELEGANT |-> "elegant" ]

Lower(s) == [i \in 1..Len(s) |-> Get(LowerCase, s[i], s[i])]

\* agents.py:84-114: what _get_completion returns for one outcome of the call.
completion_of(outcome) ==
    IF outcome.kind = "ok" THEN Strip(outcome.text) ELSE DEFAULT_MESSAGE

\* The prompt of suggest_theme (agents.py:163-171), by its interpolated fields.
ThemePrompt(t, message) == [tone |-> t, message |-> message]

\* agents.py:159-174.
suggest_theme(outcome) ==
    LET th == Lower(Strip(completion_of(outcome)))
    IN IF th \in {<<"classic">>, <<"modern">>, <<"elegant">>} THEN th[1] ELSE "classic"

\* tools.py:7: the parameters of style_card.
StyleCardParams == <<"theme">>

\* Preference dictionaries a caller of generate_card passes.
RunnerPreferences ==
    { <<>>,
      [include_emojis |-> FALSE],
      [include_emojis |-> TRUE, emoji_count |-> 1],
      [include_emojis |-> FALSE, colors |-> [bg_color |-> Hex("f", "0", "f", "0", "f", "0")]] }

RunnerShapes == {"rectangle", "heart"}
RunnerPaths == {NoneVal, "/tmp/card.pdf"}

RunnerInit ==
    /\ m_pc = "start"
    /\ m_entry = "none"
    /\ openrouter_key = "sk-key"
    /\ tone = "none"
    /\ emoji_count = 0
    /\ llm_calls = <<>>
    /\ llm_outcome = "none"
    /\ response = <<>>
    /\ emojis = <<>>
    /\ m_result = NoneVal
    \* the other components at rest
    /\ r_pc = "start"
    /\ r_impl = "none"
    /\ pexels_key = NoneVal
    /\ category = "none"
    /\ search_phase = "none"
    /\ cat_idx = 0
    /\ term_idx = 0
    /\ max_retries = 0
    /\ r_attempt = 0
    /\ r_sleeps = {}
    /\ data = NoneVal
    /\ requests_log = <<>>
    /\ r_result = NoneVal
    /\ r_outcome = "running"
    /\ d_pc = "start"
    /\ d_impl = "none"
    /\ card_message = <<>>
    /\ theme = <<>>
    /\ output_path = NoneVal
    /\ attempt = 0
    /\ downloads = <<>>
    /\ sleeps = {}
    /\ bg_image = Unassigned
    /\ clean_message = <<>>
    /\ temp_files = {}
    /\ output_tries = <<>>
    /\ d_result = NoneVal
    /\ d_outcome = "running"
    /\ p_pc = "start"
    /\ theme_name = NoneVal
    /\ style = <<>>
    /\ preview_args = <<>>
    /\ preview_html = <<>>
    /\ s_pc = "idle"
    /\ s_handler = "none"
    /\ s_args = <<>>
    /\ s_result = "none"
    /\ cards = <<>>
    /\ current_background = NoneVal
    /\ background_category = "islamic patterns"
    /\ background_url = NoneVal
    /\ fonts = <<>>
    /\ resolver_calls = 0
    /\ run_pc = "start"
    /\ run_args = <<>>
    /\ run_message = <<>>
    /\ run_theme_name = NoneVal
    /\ run_theme = <<>>
    /\ run_outcome = "running"

\* runner.py:30-56: the call, up to the request for the message text.
generate_card(recipient, t, preferences, shape, path) ==
    /\ run_pc = "start"
    /\ run_args' = [recipient |-> recipient, tone |-> t, preferences |-> preferences,
                    shape |-> shape, output_path |-> path]
    /\ craft_message(recipient, t, preferences)
    /\ run_pc' = "message"
    /\ UNCHANGED <<run_message, run_theme_name, run_theme, run_outcome>>

\* runner.py:52-59: the message is back; the style agent is asked for a theme.
generate_card_theme(outcome) ==
    /\ run_pc = "message" /\ m_pc = "done"
    /\ run_message' = m_result
    /\ llm_calls' = Append(llm_calls, ThemePrompt(run_args.tone, m_result))
    /\ run_theme_name' = suggest_theme(outcome)
    /\ run_pc' = "style"
    /\ UNCHANGED <<m_pc, m_entry, openrouter_key, tone, emoji_count, llm_outcome,
                   response, emojis, m_result>>
    /\ UNCHANGED <<run_args, run_theme, run_outcome>>

\* runner.py:60: style_card is called with two positional arguments; Python
\* binds them to the parameters of tools.py:7 and raises TypeError when the
\* counts differ, before the body of style_card runs.  Lines 62-81 run only
\* after a call that returned.
generate_card_style ==
    /\ run_pc = "style"
    /\ LET args == <<run_theme_name, run_args.shape>>
       IN IF Len(args) # Len(StyleCardParams)
          THEN /\ run_outcome' = "raised"
               /\ run_pc' = "done"
               /\ UNCHANGED run_theme
          ELSE /\ run_theme' = style_card(args[1])
               /\ run_pc' = "preview"
               /\ UNCHANGED run_outcome
    /\ UNCHANGED <<run_args, run_message, run_theme_name>>

GenerateCard ==
    /\ run_pc = "start"
    /\ \E recipient \in Recipients, t \in Tones, preferences \in RunnerPreferences,
       shape \in RunnerShapes, path \in RunnerPaths :
        generate_card(recipient, t, preferences, shape, path)
    /\ UNCHANGED <<resolverVars, renderVars, previewVars, sessionVars>>

GenerateCardTheme ==
    /\ run_pc = "message" /\ m_pc = "done"
    /\ \E outcome \in ThemeOutcomes : generate_card_theme(outcome)
    /\ UNCHANGED <<resolverVars, renderVars, previewVars, sessionVars>>

GenerateCardStyle ==
    /\ generate_card_style
    /\ UNCHANGED <<composerVars, resolverVars, renderVars, previewVars, sessionVars>>

\* ---- claims about the runner, checked under SpecRunner

\* C21: the style agent's answer is always one of classic, modern, elegant;
\* generate_card never raises, and when it ends the theme dictionary handed to
\* the renderers is the catalog entry of the chosen theme.
C21_ChosenThemeApplied ==
    /\ run_outcome # "raised"
    /\ run_theme_name # NoneVal => run_theme_name \in {"classic", "modern", "elegant"}
    /\ run_pc = "done" =>
          /\ run_outcome = "returned"
          /\ run_theme = themes[ [classic |-> "Classic", modern |-> "Modern",
                                  elegant |-> "Elegant"][run_theme_name] ]

-----------------------------------------------------------------------------
(***************************************************************************)
(* Specifications: each component is called once, on inputs of its own.    *)
(***************************************************************************)

ComposerNext ==
    \/ CallGenerateEidMessage
    \/ CallCraftMessage
    \/ CallGenerateGreeting
    \/ GetCompletion
    \/ AddEmojis

RenderNext ==
    \/ CreatePdfCard
    \/ DownloadAttempt
    \/ ComposeBackground
    \/ LayoutCard
    \/ WriteCard
    \/ CreatePdf
    \/ PdfOutput
    \/ PdfOutputFallback
    \/ DisplayDownload

ResolverNext ==
    \/ ImageGetPexelsImage
    \/ SearchPrimary
    \/ SearchFallback
    \/ UtilsGetPexelsImage
    \/ UtilsAttempt

SpecComposer ==
    /\ ComposerInit
    /\ [][ComposerNext]_vars

SpecResolver ==
    /\ ResolverInit
    /\ [][ResolverNext]_vars

SpecRender ==
    /\ RenderInit
    /\ [][RenderNext]_vars

PreviewNext ==
    \/ CallStyleCard
    \/ CallCreatePreview
    \/ PreviewCatalogTheme

SpecPreview ==
    /\ PreviewInit
    /\ [][PreviewNext]_vars

\* The card list over sequences of submissions, refreshes, deletions and displays.
SessionNext ==
    \/ SubmitForm
    \/ SearchForBackground
    \/ CreateCardBackground
    \/ CreateCardMessage
    \/ CreateCardFinish
    \/ ClickRefresh
    \/ RefreshBackgroundEnd
    \/ DeleteCard
    \/ DisplayCard
    \/ DisplayDownloads
    \/ DisplayCompose
    \/ LayoutCard
    \/ DisplayWrite
    \/ DisplayCardEnd

SpecSession ==
    /\ SessionInit
    /\ [][SessionNext]_vars

\* The creation of the first card of a session, after any number of refreshes.
CardFlowNext ==
    \/ SubmitFirstForm
    \/ RefreshFirst
    \/ UtilsAttempt
    \/ RefreshBackgroundEnd
    \/ CreateCardBackground
    \/ CreateCardMessage
    \/ GetCompletion
    \/ AddEmojis
    \/ CreateCardFinish

SpecCardFlow ==
    /\ CardFlowInit
    /\ [][CardFlowNext]_vars

\* One call of generate_card on a constructed runner.
RunnerNext ==
    \/ GenerateCard
    \/ GetCompletion
    \/ AddEmojis
    \/ GenerateCardTheme
    \/ GenerateCardStyle

SpecRunner ==
    /\ RunnerInit
    /\ [][RunnerNext]_vars

=============================================================================
